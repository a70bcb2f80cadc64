--------------------------- MODULE RecentContext ---------------------------
(***************************************************************************)
(* The conversation worker's recent context (conversation/                 *)
(* recent-context.ts): one round per message, a sequence from the round    *)
(* that was used longest ago to the one used last, and never more than     *)
(* RoundLimit of them.  Of a round's events, which are lines for a prompt,  *)
(* the model keeps the last failure; events have distinct times.           *)
(***************************************************************************)
EXTENDS TaskResult, Integers, SequencesExt

CONSTANT RoundLimit

ASSUME RoundLimitAssumption == RoundLimit \in Nat \ {0}

(* An event joins its message's round or opens one; the round is the last  *)
(* used, and the oldest makes room.                                        *)
Recorded(context, m, failure) ==
  LET known == SelectInSeq(context, LAMBDA r : r.msg = m)
      rest  == IF known = 0 THEN context ELSE RemoveAt(context, known)
      last  == IF known = 0 THEN None ELSE context[known].failure
      used  == Append(rest, [msg |-> m, failure |-> IF failure = None THEN last ELSE failure])
  IN  IF Len(used) > RoundLimit THEN Tail(used) ELSE used

(* The last failure of the round that was used last among those that have  *)
(* one.                                                                    *)
LatestFailure(context) ==
  LET failing == SelectLastInSeq(context, LAMBDA r : r.failure # None)
  IN  IF failing = 0 THEN None ELSE context[failing].failure
=============================================================================
