SPECIFICATION Spec
CONSTANTS
    p1 = p1
    p2 = p2
    p3 = p3
    p4 = p4
    HybridWeights <- MCHybrid
    TopN = 3
    BatchSize = 2
    Absent = Absent
    Words = {"shirt", "lamp", "acme", "zeta", "men shoes", "shoes", "home decor", "red", "blue"}
    SeveralWords = {"men shoes", "home decor"}
    Ratio <- MCRatio
    DuplicateWeights <- MCDuplicate
    DuplicateThreshold = 90
    VerificationWeights <- MCVerification
    CrossEncoderThreshold = 95
    RequireSameBrand = TRUE
    RequireSameCategory = FALSE
    SimilarityFloor = 5000
    RestrictCategory = TRUE
    MinComparables = 3
    TwiceMultiplier = 3
    TrimPercent = 10
    RecommendationWeights <- MCRecommendation
    Diversity = TRUE
    Failed = Failed
    Gain <- MCGain
    Keywords <- MCKeywords
    TextOrder <- MCTextOrder
    TextConfidence <- MCTextConfidence
    Descriptors <- MCDescriptors
    DescriptorConfidence = 65
    AttributeCount = 11
    Threshold = 70
    MaxTags = 3
    QualityWeights <- MCQuality
    BorderPercent = 10
    BackdropDistance = 60
    SubjectPercent = 2
INVARIANTS
    HybridRanks
    VerdictIsBest
    FilterFindsStored
    PriceGrounded
    BrandsFair
    MetricsAgree
    EnrichKeepsBest
    ColorOfSubject
