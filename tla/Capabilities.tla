---------------------------- MODULE Capabilities -----------------------------
(***************************************************************************)
(* What the effect system promises (spec 3.1): an effect is a capability.  *)
(* A running program is a stack of activations, each with the capabilities *)
(* its function declares and a mark saying that it is inside a contract    *)
(* clause or a combinator lambda, where nothing effectful may happen.      *)
(*                                                                         *)
(* A call hands on no more than the caller may do where it makes the call, *)
(* and nobody looks further down the stack: whoever performs an effect     *)
(* answers for itself alone.                                               *)
(***************************************************************************)
EXTENDS Effects

CONSTANT Effect          \* the effects the outside world knows

VARIABLES frames,        \* sequence of [caps |-> .., pure |-> ..]
          performed      \* {} or {e}: the effect the last step performed

capVars == <<frames, performed>>

Frame == [caps : SUBSET Effect, pure : BOOLEAN]

Running == frames # <<>>

Current == frames[Len(frames)]

\* What an activation may do at this moment.
May(frame, e) == ~frame.pure /\ Permits(frame.caps, e)

Silent == performed' = {}

Init == frames = <<>> /\ performed = {}

\* The host starts a function with all the capabilities it declares.
Enter == /\ ~Running
         /\ Len(frames') = 1 /\ Current' \in Frame
         /\ Silent

\* A call only narrows: the callee declares nothing that the caller may not do
\* where it stands.
Call == /\ Running /\ Len(frames') = Len(frames) + 1
        /\ frames' = Append(frames, Current')
        /\ Current' \in Frame
        /\ \A e \in Effect : Permits(Current'.caps, e) => May(Current, e)
        /\ Silent

\* The current activation goes into a contract or a lambda or comes out of it.
Turn == /\ Running /\ Len(frames') = Len(frames)
        /\ frames' = [frames EXCEPT ![Len(frames)].pure = Current'.pure]
        /\ Current' \in Frame
        /\ Silent

Return == /\ Running
          /\ frames' = SubSeq(frames, 1, Len(frames) - 1)
          /\ Silent

\* A broken contract ends every activation.
Abort == frames' = <<>> /\ Silent

Perform(e) ==
    /\ Running
    /\ May(Current, e)
    /\ performed' = {e}
    /\ UNCHANGED frames

Next == Enter \/ Call \/ Turn \/ Return \/ Abort \/ \E e \in Effect : Perform(e)

Spec == Init /\ [][Next]_capVars
=============================================================================
