--------------------------- MODULE VideoDelivery ---------------------------
(***************************************************************************)
(* What a receiver of video promises its owner, without saying how: frames *)
(* come out as a reference chain a decoder can follow, and an interruption *)
(* of the chain is reported once.  VideoFrameReorder implements it.        *)
(***************************************************************************)
EXTENDS FrameSequence, Sequences

VARIABLES
    have, last,   \* some frame was delivered since the last reset, and the newest of them
    broken,       \* the chain is interrupted: only a keyframe or the missing frame continues it
    told,         \* the owner was told of this interruption
    out,          \* frames delivered in this step, in order
    lost          \* losses reported in this step: the frame missed

vars == <<have, last, broken, told, out, lost>>

Init ==
    /\ have = FALSE /\ last = 0 /\ broken = TRUE /\ told = FALSE
    /\ out = <<>> /\ lost = <<>>

\* An interruption is reported when the owner learns of it, and only then.
Tells == lost' = IF told' THEN <<Next1(last')>> ELSE <<>>

\* A keyframe newer than everything delivered, or the frame after the newest,
\* then consecutive frames.  The one behind them may be known to be lost.
Deliver ==
    /\ out' # <<>>
    /\ \/ out'[1].key /\ (have => Newer(out'[1].seq, last))
       \/ have /\ out'[1].seq = Next1(last)
    /\ \A i \in 2 .. Len(out') : out'[i].seq = Next1(out'[i - 1].seq)
    /\ have' /\ last' = out'[Len(out')].seq
    /\ told' => broken'
    /\ Tells

\* The chain is given up, at once or not yet reported.
Break ==
    /\ have /\ ~broken /\ broken'
    /\ out' = <<>> /\ Tells
    /\ UNCHANGED <<have, last>>

Report ==
    /\ have /\ broken /\ ~told /\ told'
    /\ out' = <<>> /\ Tells
    /\ UNCHANGED <<have, last, broken>>

Quiet == out' = <<>> /\ lost' = <<>> /\ UNCHANGED <<have, last, broken, told>>

Reset ==
    /\ have' = FALSE /\ last' = 0 /\ broken' = TRUE /\ told' = FALSE
    /\ out' = <<>> /\ lost' = <<>>

Next == Deliver \/ Break \/ Report \/ Quiet \/ Reset

Spec == Init /\ [][Next]_vars
=============================================================================
