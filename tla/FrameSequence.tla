--------------------------- MODULE FrameSequence ---------------------------
(***************************************************************************)
(* Wrap-safe frame numbers (src/common/include/parties/video_common.h):    *)
(* unsigned integers of a fixed width, compared by their signed distance.  *)
(***************************************************************************)
EXTENDS Integers

CONSTANT Half    \* half of the sequence space: 2^31 for uint32_t frame_seq

SeqMod == 2 * Half

FrameSeq == 0 .. (SeqMod - 1)

\* a - b as a signed integer of the same width.
Distance(a, b) ==
    LET d == a - b
    IN  IF d >= Half THEN d - SeqMod
        ELSE IF d < -Half THEN d + SeqMod ELSE d

Newer(a, b) == Distance(a, b) > 0

\* s + n with unsigned wrap-around, for 0 <= n < SeqMod.
Plus(s, n) == IF s + n >= SeqMod THEN s + n - SeqMod ELSE s + n

Next1(s) == Plus(s, 1)
=============================================================================
