-------------------------------- MODULE Images --------------------------------
(***************************************************************************)
(* The transformations and pixel statistics of utils/image.py.  A color is *)
(* <<red, green, blue>>, a picture a sequence of rows of colors; the       *)
(* statistics are taken from a square thumbnail, of which nothing is said  *)
(* but its pixels.  Fractions are kept as integers over what they divide.  *)
(***************************************************************************)
EXTENDS PyLists

CONSTANTS
    BorderPercent,     \* _BORDER_FRACTION
    BackdropDistance,  \* _BACKGROUND_DISTANCE
    SubjectPercent     \* _MIN_SUBJECT_FRACTION

\* Python's round(a / b), half to even.
Rounded(a, b) ==
    LET q == a \div b
        twice == 2 * (a % b)
    IN  IF twice > b \/ (twice = b /\ q % 2 = 1) THEN q + 1 ELSE q

\* resize_preserving_aspect_ratio
Resized(w, h, limit) ==
    LET longest == Larger(w, h) IN
    IF longest <= limit THEN <<w, h>>
    ELSE <<Larger(1, Rounded(w * limit, longest)), Larger(1, Rounded(h * limit, longest))>>

-----------------------------------------------------------------------------
(* The subject of a picture.                                               *)

\* The coordinates of a picture, row by row.
Places(picture) ==
    LET n == Len(picture) IN [i \in 1..n * n |-> <<(i - 1) \div n + 1, ((i - 1) % n) + 1>>]

Pixels(picture) == Mapped(Places(picture), LAMBDA at : picture[at[1]][at[2]])

Margin(size) == Larger(1, Rounded(size * BorderPercent, 100))

\* The pixels of the ring around the picture.
Border(picture) ==
    LET n == Len(picture)
        Outer(i) == i <= Margin(n) \/ i > n - Margin(n)
    IN  Mapped(SelectSeq(Places(picture), LAMBDA at : Outer(at[1]) \/ Outer(at[2])),
               LAMBDA at : picture[at[1]][at[2]])

\* sorted(s)[len(s) // 2]
UpperMedian(s) ==
    CHOOSE v \in ToSet(s) :
        /\ Cardinality({i \in DOMAIN s : s[i] < v}) <= Len(s) \div 2
        /\ Cardinality({i \in DOMAIN s : s[i] <= v}) > Len(s) \div 2

\* The color that has, in each channel, Of what the colors of s have in it.
PerChannel(s, Of(_)) ==
    <<Of(Mapped(s, LAMBDA c : c[1])), Of(Mapped(s, LAMBDA c : c[2])), Of(Mapped(s, LAMBDA c : c[3]))>>

\* Mutant: the mean of the border.
Background_Mean(picture) == PerChannel(Border(picture), LAMBDA s : Total(s) \div Len(s))

\* estimate_background_color
Background(picture) == PerChannel(Border(picture), UpperMedian)

\* The square of _distance.
Distance2(c, d) ==
    (c[1] - d[1]) * (c[1] - d[1]) + (c[2] - d[2]) * (c[2] - d[2]) + (c[3] - d[3]) * (c[3] - d[3])

\* _subject_pixels: what is unlike the backdrop, unless that is next to nothing.
SubjectPixels(picture) ==
    LET background == Background(picture)
        subject == SelectSeq(Pixels(picture), LAMBDA c :
                       Distance2(c, background) > BackdropDistance * BackdropDistance)
    IN  IF 100 * Len(subject) >= SubjectPercent * Len(Pixels(picture)) THEN subject ELSE <<>>

\* Counter(s).most_common(1): of equal counts, what is met first.
MostCommon(s) ==
    LET Count(c) == Cardinality({i \in DOMAIN s : s[i] = c})
        most == {c \in ToSet(s) : \A d \in ToSet(s) : Count(d) <= Count(c)}
    IN  SelectSeq(s, LAMBDA c : c \in most)[1]

\* The subject, or the whole frame when nothing stands out.
Described(picture) ==
    IF SubjectPixels(picture) # <<>> THEN SubjectPixels(picture) ELSE Pixels(picture)

DominantColor(picture) == MostCommon(Described(picture))

\* compute_brightness: the mean luma, as <<sum, count>> in units of 1/255000.
Brightness(picture) ==
    LET of == Described(picture) IN
    <<Total(Mapped(of, LAMBDA c : 299 * c[1] + 587 * c[2] + 114 * c[3])), Len(of)>>

-----------------------------------------------------------------------------
(* Names.                                                                  *)

\* BRIGHTNESS_DARK_MAX is 0.35, BRIGHTNESS_BRIGHT_MIN is 0.6.
BrightnessName(b) ==
    CASE 100 * b[1] <= 35 * 255000 * b[2] -> "dark"
      [] 100 * b[1] >= 60 * 255000 * b[2] -> "bright"
      [] OTHER -> "medium"

Orientation(w, h) == IF h > w THEN "portrait" ELSE IF w > h THEN "landscape" ELSE "square"

\* _CHROMATIC_HUES, in degrees.
Hues == << <<"red", 0>>, <<"orange", 39>>, <<"yellow", 60>>, <<"green", 120>>, <<"blue", 240>>,
           <<"purple", 300>>, <<"pink", 350>>, <<"brown", 25>> >>

Brightest(c) == Larger(c[1], Larger(c[2], c[3]))
Darkest(c) == Smaller(c[1], Smaller(c[2], c[3]))

\* rgb_to_hls: the hue in degrees, times the range of the channels.
Hue(c) ==
    LET range == Brightest(c) - Darkest(c)
        turned == CASE c[1] = Brightest(c) -> c[2] - c[3]
                    [] c[1] # Brightest(c) /\ c[2] = Brightest(c) -> 2 * range + c[3] - c[1]
                    [] OTHER -> 4 * range + c[1] - c[2]
    IN  (60 * turned) % (360 * range)

\* _hue_distance, of two hues that are multiplied by range.
HueDistance(a, b, range) ==
    LET delta == Abs(a - b) % (360 * range) IN Smaller(delta, 360 * range - delta)

BothEnds(c) == Brightest(c) + Darkest(c)

\* The saturation is the range over the smaller of sum and 510 - sum.
Achromatic(c) ==
    LET range == Brightest(c) - Darkest(c) IN
    range = 0 \/ 100 * range < 15 * Smaller(BothEnds(c), 510 - BothEnds(c))

\* The first of the nearest hues, by the distance D.
NearestHue(D(_)) == SortedDown(Hues, LAMBDA h : -D(h[2]))[1][1]

\* Mutant: the hues are on a line, not on a circle.
ColorName_OnLine(c) ==
    LET range == Brightest(c) - Darkest(c) IN
    CASE BothEnds(c) <= 102 -> "black"
      [] BothEnds(c) > 102 /\ Achromatic(c) -> IF 100 * BothEnds(c) >= 85 * 510 THEN "white" ELSE "gray"
      [] OTHER -> NearestHue(LAMBDA h : Abs(Hue(c) - h * range))

\* classify_color_name: the lightness is sum over 510.
ColorName(c) ==
    LET range == Brightest(c) - Darkest(c) IN
    CASE BothEnds(c) <= 102 -> "black"
      [] BothEnds(c) > 102 /\ Achromatic(c) -> IF 100 * BothEnds(c) >= 85 * 510 THEN "white" ELSE "gray"
      [] OTHER -> NearestHue(LAMBDA h : HueDistance(Hue(c), h * range, range))

-----------------------------------------------------------------------------
(* What an upload goes through before it is looked at.                     *)

\* apply_orientation, for EXIF orientations 1 to 8: from 5 on rows and
\* columns change places.
Oriented(picture, o) ==
    LET h == Len(picture)
        w == Len(picture[1])
        Source(a, b) == picture[IF o \in {3, 4, 6, 7} THEN h + 1 - a ELSE a]
                               [IF o \in {2, 3, 7, 8} THEN w + 1 - b ELSE b]
    IN  IF o < 5 THEN [y \in 1..h |-> [x \in 1..w |-> Source(y, x)]]
                 ELSE [y \in 1..w |-> [x \in 1..h |-> Source(x, y)]]

\* normalize_color_mode, for pixels with an alpha channel: what shows through
\* is white.
Flattened(picture) ==
    LET Flat(c) == [i \in 1..3 |-> (c[4] * c[i] + (255 - c[4]) * 255 + 127) \div 255]
    IN  [y \in DOMAIN picture |-> [x \in DOMAIN picture[y] |-> Flat(picture[y][x])]]

\* _analyze_tags
ImageTagNames(picture, w, h) ==
    {Orientation(w, h), BrightnessName(Brightness(picture)), ColorName(DominantColor(picture))}
=============================================================================
