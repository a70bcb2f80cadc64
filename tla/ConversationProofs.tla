------------------------- MODULE ConversationProofs -------------------------
(***************************************************************************)
(* Proofs about Conversation: a recovery chain links failures, and every   *)
(* change of the inventory is told to the LLM once.                        *)
(*                                                                         *)
(* The recent context is a sequence that is searched, cut and extended, so *)
(* the lemmas come first on what those operators keep: a round of the new  *)
(* context is a round of the old one, or the round that was recorded.      *)
(***************************************************************************)
EXTENDS Conversation, FiniteSetTheorems, TLAPS

-----------------------------------------------------------------------------
(* The inductive invariant.                                                *)

FailureCodes == Codes \cup {"unknown_completion", "unknown_error"}
Capsules == [code : FailureCodes, act : Acts \cup {None}]
Failures == [msg : Messages, code : FailureCodes, act : Acts \cup {None},
             chain : Messages, count : Nat]
Jobs == [state : {"absent", "waiting", "active", "gone"}, act : Acts \cup {None},
         chain : Messages \cup {None}, count : Nat]
TalkSteps == {"idle", "triage", "chat", "answering", "saying", "plan", "context", "planning",
              "refusing", "queueing"}
BotSteps == {"idle", "running", "ended", "recorded"}
Talks == [msg : 0 .. N, pc : TalkSteps, acts : BOOLEAN, failure : Failures \cup {None},
          stock : Stock \cup {None}, change : Int, job : Jobs \cup {None}]
Bots == [msg : 0 .. N, pc : BotSteps, told : BOOLEAN, caught : BOOLEAN,
         capsule : Capsules \cup {None}, completed : BOOLEAN]

(* The state of the worker and of the bot has its types.                   *)
TypeOK ==
  /\ received \in 0 .. N
  /\ talk \in Talks
  /\ jobs \in [Messages -> Jobs]
  /\ bot \in Bots
  /\ baseline \in Stock \cup {None}
  /\ told \in Int \cup {None}
  /\ capsules \subseteq Failures

Rounds(failures) == [msg : Messages, failure : failures \cup {None}]

(* What the context and the talk remember did happen.                      *)
ContextInv ==
  /\ context \in Seq(Rounds(capsules))
  /\ talk.failure \in capsules \cup {None}
  /\ At("planning") => ~ Blocked

(* The prompt that is prepared continues what was told.                    *)
ToldInv ==
  /\ told = baseline
  /\ talk.pc \in {"answering", "planning"} =>
       talk.change = IF None \in {talk.stock, baseline} THEN 0 ELSE talk.stock - baseline

(* A message has no job before its talk is over, and no failure before the *)
(* bot took the job.                                                       *)
PlaceInv ==
  /\ talk.msg <= received
  /\ talk.pc # "idle" => talk.msg \in Messages
  /\ \A m \in Messages : jobs[m].state # "absent" =>
       m <= talk.msg /\ (talk.pc # "idle" => m # talk.msg)
  /\ \A m \in Messages : jobs[m].state \in {"absent", "gone"} =>
       jobs[m].chain = None /\ jobs[m].count = 0
  /\ bot.pc # "idle" => bot.msg \in Messages /\ jobs[bot.msg].state = "active"
  /\ \A f \in capsules : jobs[f.msg].state \in {"active", "gone"}

(* The failure that the task j of the message m is to recover from.        *)
Precedes(f, m, j) ==
  /\ f.msg < m /\ f.chain = j.chain /\ f.count + 1 = j.count
  /\ RecoveryClass(f.code) # "implementation_blocker" /\ f.act # j.act

Linked(failures, m, j) ==
  IF j.chain = None THEN j.count = 0 ELSE \E f \in failures : Precedes(f, m, j)

(* Tasks, in the queue or on the way to it, follow a failure of their      *)
(* chain; failures keep to the chain and the step of their task.           *)
ChainInv ==
  /\ \A m \in Messages : Linked(capsules, m, jobs[m])
  /\ At("queueing") => talk.job \in Jobs /\ talk.job.state = "waiting"
                         /\ Linked(capsules, talk.msg, talk.job)
  /\ \A f \in capsules :
       /\ f.chain <= f.msg /\ (f.count = 0 <=> f.chain = f.msg)
       /\ jobs[f.msg].chain # None => f.chain = jobs[f.msg].chain /\ f.count = jobs[f.msg].count

IInv == TypeOK /\ ContextInv /\ ToldInv /\ PlaceInv /\ ChainInv

-----------------------------------------------------------------------------
(***************************************************************************)
(* Lemmas about the recent context.                                        *)
(***************************************************************************)

(* A set of natural numbers has a least element.  (The intervals up to the *)
(* numbers are finite sets, and inclusion among those is well-founded.)    *)
LEMMA LeastNatural ==
  ASSUME NEW T \in SUBSET Nat, T # {}
  PROVE  \E x \in T : \A y \in T : x <= y
<1> DEFINE R == StrictSubsetOrdering(Nat)
           U == {1 .. x : x \in T}
<1>1. IsWellFoundedOn(R, FiniteSubsetsOf(Nat))
  BY FS_StrictSubsetOrderingWellFounded
<1>2. U \subseteq FiniteSubsetsOf(Nat) /\ U # {}
  <2>1. \A x \in T : IsFiniteSet(1 .. x)
    BY FS_Interval
  <2>2. \A x \in T : 1 .. x \in SUBSET Nat
    OBVIOUS
  <2>3. \A x \in T : 1 .. x \in FiniteSubsetsOf(Nat)
    BY <2>1, <2>2 DEF FiniteSubsetsOf
  <2>4. PICK x \in T : TRUE
    OBVIOUS
  <2>5. 1 .. x \in U
    OBVIOUS
  <2>6. U \subseteq FiniteSubsetsOf(Nat)
    BY <2>3
  <2> QED BY <2>5, <2>6
<1>3. PICK u \in U : \A v \in U : ~ (<<v, u>> \in R)
  <2> HIDE DEF R, U
  <2> QED BY <1>1, <1>2, WFMin
<1>4. PICK x \in T : u = 1 .. x
  OBVIOUS
<1>5. ASSUME NEW y \in T, y < x PROVE FALSE
  <2>1. x \in 1 .. x /\ x \notin 1 .. y
    BY <1>5
  <2>2. 1 .. y \subseteq 1 .. x /\ 1 .. y # 1 .. x
    BY <1>5, <2>1
  <2>3. <<1 .. y, u>> \in R
    BY <1>4, <2>2 DEF StrictSubsetOrdering
  <2> QED BY <1>3, <2>3
<1> QED BY <1>5

(* So a search among the places of a sequence finds one of them.           *)
LEMMA ExtremaAreElements ==
  ASSUME NEW n \in Nat, NEW I \in SUBSET (1 .. n), I # {}
  PROVE  Min(I) \in I /\ Max(I) \in I
<1>1. \E x \in I : \A y \in I : x <= y
  <2>1. I \in SUBSET Nat
    OBVIOUS
  <2> QED BY <2>1, LeastNatural
<1>2. \E x \in I : \A y \in I : x >= y
  <2> DEFINE T == {k \in 0 .. n : n - k \in I}
  <2>1. T \in SUBSET Nat
    OBVIOUS
  <2>2. \A x \in I : n - x \in T
    OBVIOUS
  <2>3. T # {}
    BY <2>2
  <2>4. PICK k \in T : \A j \in T : k <= j
    BY <2>1, <2>3, LeastNatural
  <2>5. n - k \in I /\ \A y \in I : n - k >= y
    BY <2>2, <2>4
  <2> QED BY <2>5
<1> QED BY <1>1, <1>2 DEF Min, Max

(* Recording an event keeps the rounds, with what is recorded among them.  *)
LEMMA RecordedKeeps ==
  ASSUME NEW F, NEW c \in Seq(Rounds(F)), NEW m \in Messages, NEW failure \in F \cup {None}
  PROVE  Recorded(c, m, failure) \in Seq(Rounds(F))
<1> DEFINE I == {i \in 1 .. Len(c) : c[i].msg = m}
           known == IF I # {} THEN Min(I) ELSE 0
           rest == IF known = 0 THEN c ELSE RemoveAt(c, known)
           last == IF known = 0 THEN None ELSE c[known].failure
           used == Append(rest, [msg |-> m, failure |-> IF failure = None THEN last ELSE failure])
<1>1. Recorded(c, m, failure) = IF Len(used) > RoundLimit THEN Tail(used) ELSE used
  BY DEF Recorded, SelectInSeq
<1>2. known = 0 \/ known \in 1 .. Len(c)
  <2>1. I \in SUBSET (1 .. Len(c)) /\ Len(c) \in Nat
    OBVIOUS
  <2>2. I # {} => Min(I) \in I /\ Max(I) \in I
    <3> HIDE DEF I
    <3> QED BY <2>1, ExtremaAreElements
  <2> QED BY <2>1, <2>2
<1> HIDE DEF known
<1>3. rest \in Seq(Rounds(F))
  BY <1>2 DEF RemoveAt
<1>4. last \in F \cup {None}
  <2>1. known # 0 => c[known] \in Rounds(F)
    BY <1>2
  <2> QED BY <2>1 DEF Rounds
<1> HIDE DEF rest, last
<1>5. [msg |-> m, failure |-> IF failure = None THEN last ELSE failure] \in Rounds(F)
  BY <1>4 DEF Rounds
<1>6. used \in Seq(Rounds(F)) /\ used # << >>
  BY <1>3, <1>5
<1> HIDE DEF used
<1> QED BY <1>1, <1>6

(* The failure that is continued is one of the context's.                  *)
LEMMA LatestIsRemembered ==
  ASSUME NEW F, NEW c \in Seq(Rounds(F))
  PROVE  LatestFailure(c) \in F \cup {None}
<1> DEFINE I == {i \in 1 .. Len(c) : c[i].failure # None}
           failing == IF I # {} THEN Max(I) ELSE 0
<1>1. LatestFailure(c) = IF failing = 0 THEN None ELSE c[failing].failure
  BY DEF LatestFailure, SelectLastInSeq
<1>2. failing = 0 \/ failing \in 1 .. Len(c)
  <2>1. I \in SUBSET (1 .. Len(c)) /\ Len(c) \in Nat
    OBVIOUS
  <2>2. I # {} => Min(I) \in I /\ Max(I) \in I
    <3> HIDE DEF I
    <3> QED BY <2>1, ExtremaAreElements
  <2> QED BY <2>1, <2>2
<1> HIDE DEF failing
<1>3. failing # 0 => c[failing] \in Rounds(F)
  BY <1>2
<1> QED BY <1>1, <1>3 DEF Rounds

(* A context stays one when there are more failures.                       *)
LEMMA RoundsGrow ==
  ASSUME NEW F, NEW G, F \subseteq G, NEW c \in Seq(Rounds(F))
  PROVE  c \in Seq(Rounds(G))
<1>1. Rounds(F) \subseteq Rounds(G)
  BY DEF Rounds
<1> QED BY <1>1

(* What a task that ends leaves to be recorded.                            *)
LEMMA ResultTypes ==
  Results \subseteq [completed : BOOLEAN, capsule : Capsules \cup {None}, caught : BOOLEAN]
<1> SUFFICES ASSUME NEW x \in Executions
             PROVE  ResultOf(x) \in [completed : BOOLEAN, capsule : Capsules \cup {None},
                                     caught : BOOLEAN]
  BY DEF Results
<1>1. FailureCode(x) \in FailureCodes /\ RetryAction(x) \in Acts \cup {None}
  BY DEF Executions, FailureCode, RetryAction, FailureCodes
<1>2. Capsule(x) \in Capsules \cup {None}
  BY <1>1 DEF Capsule, Capsules
<1> QED BY <1>2 DEF ResultOf

(* The worker and the bot between two of what they do.                     *)
LEMMA Silence ==
  /\ Silent \in Talks /\ Silent.failure = None /\ Silent.msg = 0 /\ Silent.pc = "idle"
  /\ Unused \in Bots /\ Unused.pc = "idle" /\ Unused.msg = 0
BY ConversationAssumption DEF Silent, Talks, TalkSteps, Unused, Bots, BotSteps

(* The talk ends, or goes on to the next step without what it had read.    *)
LEMMA GoesOnOrEnds ==
  ASSUME talk \in Talks
  PROVE  /\ \A pc \in TalkSteps : Goto(pc) =>
              /\ talk' \in Talks /\ talk'.msg = talk.msg /\ talk'.failure = None
              /\ talk'.pc = pc
         /\ TalkEnds =>
              /\ talk' \in Talks /\ talk'.msg = talk.msg /\ talk'.failure = None
              /\ talk'.pc = "idle"
<1> USE Silence
<1>1. ASSUME NEW pc \in TalkSteps, Goto(pc)
      PROVE  /\ talk' \in Talks /\ talk'.msg = talk.msg /\ talk'.failure = None
             /\ talk'.pc = pc
  <2>1. talk' = [Silent EXCEPT !.msg = talk.msg, !.acts = talk.acts, !.pc = pc]
    BY <1>1 DEF Goto
  <2>2. /\ talk' \in Talks /\ talk'.msg = talk.msg /\ talk'.failure = Silent.failure
        /\ talk'.pc = pc
    BY <2>1 DEF Talks
  <2> QED BY <2>2
<1>2. ASSUME TalkEnds
      PROVE  /\ talk' \in Talks /\ talk'.msg = talk.msg /\ talk'.failure = None
             /\ talk'.pc = "idle"
  BY <1>2 DEF TalkEnds, Talks
<1> QED BY <1>1, <1>2

-----------------------------------------------------------------------------
(***************************************************************************)
(* The invariant is inductive.                                             *)
(***************************************************************************)
LEMMA Initially == Init => IInv
<1> USE ConversationAssumption
<1> SUFFICES ASSUME Init PROVE IInv
  OBVIOUS
<1>1. TypeOK
  BY DEF Init, TypeOK, Talks, Bots, Silent, Unused, Absent, Jobs, TalkSteps, BotSteps
<1>2. ContextInv
  BY DEF Init, ContextInv, Silent, At
<1>3. ToldInv
  BY DEF Init, ToldInv, Silent
<1>4. PlaceInv
  BY DEF Init, PlaceInv, Silent, Unused, Absent
<1>5. ChainInv
  BY DEF Init, ChainInv, Silent, Absent, Linked, At
<1> QED BY <1>1, <1>2, <1>3, <1>4, <1>5 DEF IInv

(* When a prompt that tells the change is sent, and the baseline moves,    *)
(* what was told is again what the next change is counted from.            *)
LEMMA SentAdvances ==
  ASSUME IInv, talk.pc \in {"answering", "planning"}, Sent, AdvanceBaseline
  PROVE  told' = baseline' /\ baseline' \in Stock \cup {None}
<1> USE ConversationAssumption DEF IInv, TypeOK, Talks, ToldInv, Sent, AdvanceBaseline
<1>1. CASE talk.stock = None
  BY <1>1
<1>2. CASE talk.stock # None /\ told = None
  BY <1>2
<1>3. CASE talk.stock # None /\ told # None
  BY <1>3
<1> QED BY <1>1, <1>2, <1>3

(* The owner says something. *)
LEMMA ReceiveStep ==
  ASSUME IInv, Receive
  PROVE  IInv'
<1> USE ConversationAssumption, Silence DEF IInv, Receive, At, Messages
<1>1. TypeOK'
  <2>1. talk' \in Talks
    BY DEF TypeOK, Talks, TalkSteps
  <2>2. bot' \in Bots
    BY DEF TypeOK, Bots, BotSteps
  <2> QED BY <2>1, <2>2 DEF TypeOK
<1>2. ContextInv'
  BY DEF TypeOK, Talks, ContextInv, Blocked
<1>3. ToldInv'
  BY DEF TypeOK, Talks, ToldInv
<1>4. PlaceInv'
  BY DEF TypeOK, Talks, PlaceInv
<1>5. ChainInv'
  BY DEF TypeOK, Talks, ChainInv
<1> QED BY <1>1, <1>2, <1>3, <1>4, <1>5

(* The worker takes the next message. *)
LEMMA PullStep ==
  ASSUME IInv, Pull
  PROVE  IInv'
<1> USE ConversationAssumption, Silence DEF IInv, Pull, At, Messages
<1>0. talk.msg + 1 \in 0 .. N /\ talk.msg + 1 \in Messages
  BY DEF TypeOK, Talks, PlaceInv
<1>1. TypeOK'
  <2>1. talk' \in Talks
    BY <1>0 DEF TypeOK, Talks, TalkSteps
  <2>2. bot' \in Bots
    BY <1>0 DEF TypeOK, Bots, BotSteps
  <2> QED BY <1>0, <2>1, <2>2 DEF TypeOK
<1>2. ContextInv'
  BY <1>0 DEF TypeOK, Talks, ContextInv, Blocked
<1>3. ToldInv'
  BY <1>0 DEF TypeOK, Talks, ToldInv
<1>4. PlaceInv'
  BY <1>0 DEF TypeOK, Talks, PlaceInv
<1>5. ChainInv'
  BY <1>0 DEF TypeOK, Talks, ChainInv
<1> QED BY <1>1, <1>2, <1>3, <1>4, <1>5

(* The triage; a cancel tells the running task. *)
LEMMA TriageStep ==
  ASSUME IInv, NEW wants \in Wants, Triage(wants)
  PROVE  IInv'
<1> USE ConversationAssumption, Silence DEF IInv, Triage, At, Messages
<1> DEFINE acts == "action" \in wants
           pc == IF "chat" \in wants THEN "chat"
                 ELSE IF "cancel" \in wants THEN "saying" ELSE "plan"
<1>0. /\ acts \in BOOLEAN /\ pc \in {"chat", "saying", "plan"}
      /\ talk' = [talk EXCEPT !.acts = acts, !.pc = pc]
  OBVIOUS
<1> HIDE DEF acts, pc
<1>1. TypeOK'
  <2>1. talk' \in Talks
    BY <1>0 DEF TypeOK, Talks, TalkSteps
  <2>2. bot' \in Bots
    BY <1>0 DEF TypeOK, Bots, BotSteps
  <2> QED BY <1>0, <2>1, <2>2 DEF TypeOK
<1>2. ContextInv'
  BY <1>0 DEF TypeOK, Talks, ContextInv, Blocked
<1>3. ToldInv'
  BY <1>0 DEF TypeOK, Talks, ToldInv
<1>4. PlaceInv'
  BY <1>0 DEF TypeOK, Talks, PlaceInv
<1>5. ChainInv'
  BY <1>0 DEF TypeOK, Talks, ChainInv
<1> QED BY <1>1, <1>2, <1>3, <1>4, <1>5

(* The talk ends with an error. *)
LEMMA TriageFailsStep ==
  ASSUME IInv, TriageFails
  PROVE  IInv'
<1> USE ConversationAssumption, Silence DEF IInv, TriageFails, At, Messages
<1>0. /\ talk' \in Talks /\ talk'.msg = talk.msg /\ talk'.failure = None
      /\ talk'.pc = "idle"
  BY GoesOnOrEnds DEF TypeOK
<1>1. TypeOK'
  <2>1. talk' \in Talks
    BY <1>0 DEF TypeOK, Talks, TalkSteps
  <2>2. bot' \in Bots
    BY <1>0 DEF TypeOK, Bots, BotSteps
  <2> QED BY <1>0, <2>1, <2>2 DEF TypeOK
<1>2. ContextInv'
  BY <1>0 DEF TypeOK, Talks, ContextInv, Blocked
<1>3. ToldInv'
  BY <1>0 DEF TypeOK, Talks, ToldInv
<1>4. PlaceInv'
  BY <1>0 DEF TypeOK, Talks, PlaceInv
<1>5. ChainInv'
  BY <1>0 DEF TypeOK, Talks, ChainInv
<1> QED BY <1>1, <1>2, <1>3, <1>4, <1>5

(* The prompt is prepared. *)
LEMMA ChatPromptStep ==
  ASSUME IInv, NEW stock \in Shots, ChatPrompt(stock)
  PROVE  IInv'
<1> USE ConversationAssumption, Silence DEF IInv, ChatPrompt, Prepared, Shots, At, Messages
<1> DEFINE change == IF None \in {stock, baseline} THEN 0 ELSE stock - baseline
<1>0. /\ change \in Int /\ stock \in Stock \cup {None}
      /\ talk' = [talk EXCEPT !.pc = "answering", !.stock = stock, !.change = change]
  BY DEF TypeOK
<1> HIDE DEF change
<1>1. TypeOK'
  <2>1. talk' \in Talks
    BY <1>0 DEF TypeOK, Talks, TalkSteps
  <2>2. bot' \in Bots
    BY <1>0 DEF TypeOK, Bots, BotSteps
  <2> QED BY <1>0, <2>1, <2>2 DEF TypeOK
<1>2. ContextInv'
  BY <1>0 DEF TypeOK, Talks, ContextInv, Blocked
<1>3. ToldInv'
  BY <1>0 DEF TypeOK, Talks, ToldInv
<1>4. PlaceInv'
  BY <1>0 DEF TypeOK, Talks, PlaceInv
<1>5. ChainInv'
  BY <1>0 DEF TypeOK, Talks, ChainInv
<1> QED BY <1>1, <1>2, <1>3, <1>4, <1>5

(* The LLM is called, and the baseline moves whatever it answers. *)
LEMMA ReplyGeneratorStep ==
  ASSUME IInv, NEW ok \in BOOLEAN, ReplyGenerator(ok)
  PROVE  IInv'
<1> USE ConversationAssumption, Silence DEF IInv, ReplyGenerator, At, Messages
<1>1a. told' = baseline' /\ baseline' \in Stock \cup {None}
  BY SentAdvances
<1>1b. /\ talk' \in Talks /\ talk'.msg = talk.msg /\ talk'.failure = None
       /\ talk'.pc \in {"saying", "idle"}
  BY GoesOnOrEnds DEF TypeOK, TalkSteps
<1>0. /\ told' = baseline' /\ baseline' \in Stock \cup {None}
      /\ talk' \in Talks /\ talk'.msg = talk.msg /\ talk'.failure = None
      /\ talk'.pc \in {"saying", "idle"}
  BY <1>1a, <1>1b
<1>1. TypeOK'
  <2>1. talk' \in Talks
    BY <1>0 DEF TypeOK, Talks, TalkSteps
  <2>2. bot' \in Bots
    BY <1>0 DEF TypeOK, Bots, BotSteps
  <2> QED BY <1>0, <2>1, <2>2 DEF TypeOK
<1>2. ContextInv'
  BY <1>0 DEF TypeOK, Talks, ContextInv, Blocked
<1>3. ToldInv'
  BY <1>0 DEF TypeOK, Talks, ToldInv
<1>4. PlaceInv'
  BY <1>0 DEF TypeOK, Talks, PlaceInv
<1>5. ChainInv'
  BY <1>0 DEF TypeOK, Talks, ChainInv
<1> QED BY <1>1, <1>2, <1>3, <1>4, <1>5

(* What is said enters the context.                                        *)
LEMMA SayKeeps ==
  ASSUME IInv, NEW ok \in BOOLEAN, talk.pc # "idle", Say(ok)
  PROVE  context' \in Seq(Rounds(capsules))
BY RecordedKeeps DEF IInv, PlaceInv, ContextInv, Say

(* The task that is planned after a failure is linked to it: the failure   *)
(* is another message's, since this message has no task yet.               *)
LEMMA PlannedIsLinked ==
  ASSUME IInv, At("planning"), NEW act \in Acts, ~ Repeats(act)
  PROVE  /\ PlannedJob(act) \in Jobs /\ PlannedJob(act).state = "waiting"
         /\ Linked(capsules, talk.msg, PlannedJob(act))
<1> USE ConversationAssumption DEF IInv, At, Messages
<1>1. CASE talk.failure = None
  BY <1>1 DEF PlannedJob, Jobs, Linked
<1>2. CASE talk.failure # None
  <2> DEFINE f == talk.failure
  <2>1. /\ f \in capsules /\ f \in Failures
        /\ RecoveryClass(f.code) # "implementation_blocker" /\ f.act # act
    BY <1>2 DEF ContextInv, TypeOK, Blocked, Repeats
  <2>2. f.msg \in Messages /\ f.chain \in Messages /\ f.count \in Nat
    BY <2>1 DEF Failures
  <2>3. f.msg < talk.msg
    BY <2>1, <2>2 DEF PlaceInv, TypeOK, Talks
  <2>4. PlannedJob(act) = [state |-> "waiting", act |-> act, chain |-> f.chain,
                           count |-> f.count + 1]
    BY <1>2 DEF PlannedJob
  <2> HIDE DEF f
  <2>5. PlannedJob(act) \in Jobs
    BY <2>2, <2>4 DEF Jobs
  <2>6. Precedes(f, talk.msg, PlannedJob(act))
    BY <2>1, <2>3, <2>4 DEF Precedes
  <2> QED BY <2>1, <2>2, <2>4, <2>5, <2>6 DEF Linked
<1> QED BY <1>1, <1>2

(* The reply is sent, or is not. *)
LEMMA BroadcastReplyStep ==
  ASSUME IInv, NEW ok \in BOOLEAN, BroadcastReply(ok)
  PROVE  IInv'
<1> USE ConversationAssumption, Silence DEF IInv, BroadcastReply, At, Messages
<1>1a. context' \in Seq(Rounds(capsules))
  BY SayKeeps DEF Say
<1>1b. /\ talk' \in Talks /\ talk'.msg = talk.msg /\ talk'.failure = None
       /\ talk'.pc \in {"plan", "idle"}
  BY GoesOnOrEnds DEF TypeOK, TalkSteps
<1>0. /\ context' \in Seq(Rounds(capsules))
      /\ talk' \in Talks /\ talk'.msg = talk.msg /\ talk'.failure = None
      /\ talk'.pc \in {"plan", "idle"}
  BY <1>1a, <1>1b
<1>1. TypeOK'
  <2>1. talk' \in Talks
    BY <1>0 DEF TypeOK, Talks, TalkSteps
  <2>2. bot' \in Bots
    BY <1>0 DEF TypeOK, Bots, BotSteps
  <2> QED BY <1>0, <2>1, <2>2 DEF TypeOK
<1>2. ContextInv'
  BY <1>0 DEF TypeOK, Talks, ContextInv, Blocked
<1>3. ToldInv'
  BY <1>0 DEF TypeOK, Talks, ToldInv
<1>4. PlaceInv'
  BY <1>0 DEF TypeOK, Talks, PlaceInv
<1>5. ChainInv'
  BY <1>0 DEF TypeOK, Talks, ChainInv
<1> QED BY <1>1, <1>2, <1>3, <1>4, <1>5

(* The refusal is sent, or is not. *)
LEMMA RefuseStep ==
  ASSUME IInv, NEW ok \in BOOLEAN, Refuse(ok)
  PROVE  IInv'
<1> USE ConversationAssumption, Silence DEF IInv, Refuse, At, Messages
<1>1a. context' \in Seq(Rounds(capsules))
  BY SayKeeps DEF Say
<1>1b. /\ talk' \in Talks /\ talk'.msg = talk.msg /\ talk'.failure = None
       /\ talk'.pc \in {"plan", "idle"}
  BY GoesOnOrEnds DEF TypeOK, TalkSteps
<1>0. /\ context' \in Seq(Rounds(capsules))
      /\ talk' \in Talks /\ talk'.msg = talk.msg /\ talk'.failure = None
      /\ talk'.pc \in {"plan", "idle"}
  BY <1>1a, <1>1b
<1>1. TypeOK'
  <2>1. talk' \in Talks
    BY <1>0 DEF TypeOK, Talks, TalkSteps
  <2>2. bot' \in Bots
    BY <1>0 DEF TypeOK, Bots, BotSteps
  <2> QED BY <1>0, <2>1, <2>2 DEF TypeOK
<1>2. ContextInv'
  BY <1>0 DEF TypeOK, Talks, ContextInv, Blocked
<1>3. ToldInv'
  BY <1>0 DEF TypeOK, Talks, ToldInv
<1>4. PlaceInv'
  BY <1>0 DEF TypeOK, Talks, PlaceInv
<1>5. ChainInv'
  BY <1>0 DEF TypeOK, Talks, ChainInv
<1> QED BY <1>1, <1>2, <1>3, <1>4, <1>5

(* The failure to continue is read from the context. *)
LEMMA ReadLatestFailureStep ==
  ASSUME IInv, NEW continues \in BOOLEAN, ReadLatestFailure(continues)
  PROVE  IInv'
<1> USE ConversationAssumption, Silence DEF IInv, ReadLatestFailure, At, Messages
<1> DEFINE failure == IF continues THEN LatestFailure(context) ELSE None
<1>1a. failure \in capsules \cup {None}
  BY LatestIsRemembered DEF ContextInv
<1>1b. talk' = [talk EXCEPT !.pc = "context", !.failure = failure]
  OBVIOUS
<1> HIDE DEF failure
<1>0. /\ failure \in capsules \cup {None} /\ failure \in Failures \cup {None}
      /\ talk' = [talk EXCEPT !.pc = "context", !.failure = failure]
  BY <1>1a, <1>1b DEF TypeOK
<1>1. TypeOK'
  <2>1. talk' \in Talks
    BY <1>0 DEF TypeOK, Talks, TalkSteps
  <2>2. bot' \in Bots
    BY <1>0 DEF TypeOK, Bots, BotSteps
  <2> QED BY <1>0, <2>1, <2>2 DEF TypeOK
<1>2. ContextInv'
  BY <1>0 DEF TypeOK, Talks, ContextInv, Blocked
<1>3. ToldInv'
  BY <1>0 DEF TypeOK, Talks, ToldInv
<1>4. PlaceInv'
  BY <1>0 DEF TypeOK, Talks, PlaceInv
<1>5. ChainInv'
  BY <1>0 DEF TypeOK, Talks, ChainInv
<1> QED BY <1>1, <1>2, <1>3, <1>4, <1>5

(* A failure of the program is refused; else the prompt is prepared. *)
LEMMA PlanningContextStep ==
  ASSUME IInv, NEW stock \in Shots, PlanningContext(stock)
  PROVE  IInv'
<1> USE ConversationAssumption, Silence DEF IInv, PlanningContext, Shots, At, Messages
<1> DEFINE change == IF None \in {stock, baseline} THEN 0 ELSE stock - baseline
<1>1a. change \in Int /\ stock \in Stock \cup {None}
  BY DEF TypeOK
<1>1d. \/ /\ talk' \in Talks /\ talk'.msg = talk.msg /\ talk'.failure = None
          /\ talk'.pc = "refusing"
       \/ /\ ~ Blocked
          /\ talk' = [talk EXCEPT !.pc = "planning", !.stock = stock, !.change = change]
  <2>1. CASE Blocked
    BY <2>1, GoesOnOrEnds DEF TypeOK, TalkSteps
  <2>2. CASE ~ Blocked
    BY <2>2 DEF Prepared
  <2> QED BY <2>1, <2>2
<1> HIDE DEF change
<1>0. /\ change \in Int /\ stock \in Stock \cup {None}
      /\ \/ /\ talk' \in Talks /\ talk'.msg = talk.msg /\ talk'.failure = None
            /\ talk'.pc = "refusing"
         \/ /\ ~ Blocked
            /\ talk' = [talk EXCEPT !.pc = "planning", !.stock = stock, !.change = change]
  BY <1>1a, <1>1d
<1>1. TypeOK'
  <2>1. talk' \in Talks
    BY <1>0, ZenonT(40) DEF TypeOK, Talks, TalkSteps
  <2>2. bot' \in Bots
    BY <1>0 DEF TypeOK, Bots, BotSteps
  <2> QED BY <1>0, <2>1, <2>2 DEF TypeOK
<1>2. ContextInv'
  BY <1>0 DEF TypeOK, Talks, ContextInv, Blocked
<1>3. ToldInv'
  BY <1>0, ZenonT(40) DEF TypeOK, Talks, ToldInv, change
<1>4. PlaceInv'
  <2>1. talk'.msg = talk.msg /\ talk.pc # "idle"
    BY <1>0 DEF TypeOK, Talks
  <2> QED BY <2>1 DEF PlaceInv
<1>5. ChainInv'
  BY <1>0 DEF TypeOK, Talks, ChainInv
<1> QED BY <1>1, <1>2, <1>3, <1>4, <1>5

(* The task enters the queue, or is lost with its talk. *)
LEMMA EnqueueStep ==
  ASSUME IInv, NEW written \in BOOLEAN, Enqueue(written)
  PROVE  IInv'
<1> USE ConversationAssumption, Silence DEF IInv, Enqueue, At, Messages
<1>1a. /\ talk' \in Talks /\ talk'.msg = talk.msg /\ talk'.failure = None
       /\ talk'.pc = "idle"
  BY GoesOnOrEnds DEF TypeOK
<1>1b. /\ talk.job \in Jobs /\ talk.job.state = "waiting" /\ Linked(capsules, talk.msg, talk.job)
       /\ talk.msg \in Messages /\ \A f \in capsules : f.msg # talk.msg
  BY DEF ChainInv, PlaceInv
<1>1c. /\ jobs' \in [Messages -> Jobs]
       /\ \A m \in Messages : m # talk.msg => jobs'[m] = jobs[m]
       /\ jobs'[talk.msg] = jobs[talk.msg] \/ jobs'[talk.msg] = talk.job
  BY <1>1b DEF TypeOK
<1>0. /\ talk' \in Talks /\ talk'.msg = talk.msg /\ talk'.failure = None
      /\ talk'.pc = "idle" /\ talk.msg \in Messages
      /\ talk.job \in Jobs /\ talk.job.state = "waiting" /\ Linked(capsules, talk.msg, talk.job)
      /\ \A f \in capsules : f.msg # talk.msg
      /\ jobs' \in [Messages -> Jobs]
      /\ \A m \in Messages : m # talk.msg => jobs'[m] = jobs[m]
      /\ jobs'[talk.msg] = jobs[talk.msg] \/ jobs'[talk.msg] = talk.job
  BY <1>1a, <1>1b, <1>1c
<1>1. TypeOK'
  <2>1. talk' \in Talks
    BY <1>0 DEF TypeOK, Talks, TalkSteps
  <2>2. bot' \in Bots
    BY <1>0 DEF TypeOK, Bots, BotSteps
  <2> QED BY <1>0, <2>1, <2>2 DEF TypeOK
<1>2. ContextInv'
  BY <1>0 DEF TypeOK, Talks, ContextInv, Blocked
<1>3. ToldInv'
  BY <1>0 DEF TypeOK, Talks, ToldInv
<1>4. PlaceInv'
  BY <1>0 DEF TypeOK, Talks, PlaceInv
<1>5. ChainInv'
  BY <1>0, SMTT(30) DEF TypeOK, Talks, ChainInv
<1> QED BY <1>1, <1>2, <1>3, <1>4, <1>5

(* The planner is asked; a plan that is accepted is on its way to the queue. *)
LEMMA PlannerStep ==
  ASSUME IInv, NEW act \in Acts \cup {None}, Planner(act)
  PROVE  IInv'
<1> USE ConversationAssumption, Silence DEF IInv, Planner, At, Messages
<1>1a. told' = baseline' /\ baseline' \in Stock \cup {None}
  BY SentAdvances
<1>1b. ASSUME act = None \/ Repeats(act)
       PROVE  /\ context' = context /\ talk' \in Talks /\ talk'.msg = talk.msg
              /\ talk'.failure = None /\ talk'.pc = "refusing"
  BY <1>1b, GoesOnOrEnds DEF TypeOK, TalkSteps
<1>1c. ASSUME act # None, ~ Repeats(act)
       PROVE  /\ context' \in Seq(Rounds(capsules)) /\ talk' \in Talks /\ talk'.msg = talk.msg
              /\ talk'.failure = None /\ talk'.pc = "queueing" /\ talk'.job \in Jobs
              /\ talk'.job.state = "waiting" /\ Linked(capsules, talk.msg, talk'.job)
  <2>1. context' \in Seq(Rounds(capsules))
    BY <1>1c, RecordedKeeps DEF Dispatch, ContextInv, PlaceInv
  <2> DEFINE j == PlannedJob(act)
  <2>2. j \in Jobs /\ j.state = "waiting" /\ Linked(capsules, talk.msg, j)
    BY <1>1c, PlannedIsLinked
  <2>3. talk' = [Silent EXCEPT !.msg = talk.msg, !.pc = "queueing", !.job = j]
    BY <1>1c DEF Dispatch
  <2> HIDE DEF j
  <2>4. /\ talk' \in Talks /\ talk'.msg = talk.msg /\ talk'.failure = None
        /\ talk'.pc = "queueing" /\ talk'.job = j
    BY <2>2, <2>3 DEF TypeOK, Talks, TalkSteps
  <2> QED BY <2>1, <2>2, <2>4
<1>0. /\ told' = baseline' /\ baseline' \in Stock \cup {None}
      /\ context' \in Seq(Rounds(capsules))
      /\ talk' \in Talks /\ talk'.msg = talk.msg /\ talk'.failure = None
      /\ \/ talk'.pc = "refusing"
         \/ /\ talk'.pc = "queueing" /\ talk'.job \in Jobs /\ talk'.job.state = "waiting"
            /\ Linked(capsules, talk.msg, talk'.job)
  BY <1>1a, <1>1b, <1>1c DEF ContextInv
<1>1. TypeOK'
  <2>1. talk' \in Talks
    BY <1>0 DEF TypeOK, Talks, TalkSteps
  <2>2. bot' \in Bots
    BY <1>0 DEF TypeOK, Bots, BotSteps
  <2> QED BY <1>0, <2>1, <2>2 DEF TypeOK
<1>2. ContextInv'
  BY <1>0 DEF TypeOK, Talks, ContextInv, Blocked
<1>3. ToldInv'
  BY <1>0 DEF TypeOK, Talks, ToldInv
<1>4. PlaceInv'
  BY <1>0 DEF TypeOK, Talks, PlaceInv
<1>5. ChainInv'
  BY <1>0 DEF TypeOK, Talks, ChainInv
<1> QED BY <1>1, <1>2, <1>3, <1>4, <1>5

(* A task that is gone has left its chain, and keeps its type.             *)
LEMMA GoneFacts ==
  Gone \in Jobs /\ Gone.state = "gone" /\ Gone.chain = None /\ Gone.count = 0
BY DEF Gone, Absent, Jobs

(* When a job is gone, what is said of the other jobs stays.               *)
LEMMA JobGoes ==
  ASSUME IInv, NEW b \in Messages, bot.pc # "idle" => b = bot.msg,
         jobs[b].state # "absent", jobs' = [jobs EXCEPT ![b] = Gone],
         bot' \in Bots, bot'.pc = "idle",
         UNCHANGED <<received, talk, baseline, told, capsules>>,
         context' \in Seq(Rounds(capsules))
  PROVE  IInv'
<1> USE ConversationAssumption, GoneFacts DEF IInv, At, Messages
<1>0. /\ jobs' \in [Messages -> Jobs] /\ jobs'[b] = Gone
      /\ \A m \in Messages : m # b => jobs'[m] = jobs[m]
  BY DEF TypeOK
<1>1. TypeOK'
  BY <1>0 DEF TypeOK
<1>2. ContextInv'
  BY DEF ContextInv, Blocked
<1>3. ToldInv'
  BY DEF ToldInv
<1>4. PlaceInv'
  BY <1>0 DEF TypeOK, PlaceInv
<1>5. ChainInv'
  <2>1. \A m \in Messages : Linked(capsules, m, jobs'[m])
    BY <1>0 DEF ChainInv, Linked
  <2>2. \A f \in capsules : jobs'[f.msg].chain # None => jobs'[f.msg] = jobs[f.msg]
    BY <1>0 DEF TypeOK, Failures
  <2> QED BY <2>1, <2>2 DEF ChainInv
<1> QED BY <1>1, <1>2, <1>3, <1>4, <1>5

(* When only the bot moves, with its task, the rest stays.                 *)
LEMMA BotMovesOn ==
  ASSUME IInv, bot' \in Bots, bot'.pc # "idle", bot.pc # "idle", bot'.msg = bot.msg,
         UNCHANGED <<received, talk, jobs, context, baseline, told, capsules>>
  PROVE  IInv'
<1> USE DEF IInv, At
<1>1. TypeOK'
  BY DEF TypeOK
<1>2. ContextInv'
  BY DEF ContextInv, Blocked
<1>3. ToldInv'
  BY DEF ToldInv
<1>4. PlaceInv'
  BY DEF PlaceInv
<1>5. ChainInv'
  BY DEF ChainInv
<1> QED BY <1>1, <1>2, <1>3, <1>4, <1>5

(* The bot takes a task, or discards it.                                   *)
LEMMA TakeTaskStep ==
  ASSUME IInv, NEW m \in Messages, NEW recorded \in BOOLEAN, TakeTask(m, recorded)
  PROVE  IInv'
<1> USE ConversationAssumption, Silence DEF Messages
<1>1. CASE m < received \/ ~ recorded
  BY <1>1, JobGoes DEF TakeTask, IInv, TypeOK, ContextInv
<1>2. CASE ~ (m < received \/ ~ recorded)
  <2> USE DEF IInv, At
  <2>1. /\ jobs' = [jobs EXCEPT ![m].state = "active"]
        /\ bot' = [Unused EXCEPT !.msg = m, !.pc = "running"]
        /\ jobs[m].state = "waiting" /\ bot.pc = "idle"
        /\ UNCHANGED <<received, talk, context, baseline, told, capsules>>
    BY <1>2 DEF TakeTask
  <2>2. bot' \in Bots /\ bot'.msg = m /\ bot'.pc = "running"
    <3>1. m \in 0 .. N /\ "running" \in BotSteps
      BY DEF BotSteps
    <3> QED BY <2>1, <3>1 DEF Bots
  <2>3. /\ jobs' \in [Messages -> Jobs] /\ jobs'[m].state = "active"
        /\ jobs'[m].chain = jobs[m].chain /\ jobs'[m].count = jobs[m].count
        /\ jobs'[m].act = jobs[m].act
        /\ \A n \in Messages : n # m => jobs'[n] = jobs[n]
    BY <2>1 DEF TypeOK, Jobs
  <2>4. \A f \in capsules : f.msg # m /\ f.msg \in Messages
    BY <2>1 DEF PlaceInv, TypeOK, Failures
  <2>5. TypeOK'
    BY <2>1, <2>2, <2>3 DEF TypeOK
  <2>6. ContextInv'
    BY <2>1 DEF ContextInv, Blocked
  <2>7. ToldInv'
    BY <2>1 DEF ToldInv
  <2>8. PlaceInv'
    BY <2>1, <2>2, <2>3, <2>4 DEF PlaceInv
  <2>9. ChainInv'
    <3>1. \A n \in Messages : Linked(capsules, n, jobs'[n])
      BY <2>3 DEF ChainInv, Linked, Precedes
    <3> QED BY <2>1, <2>3, <2>4, <3>1 DEF ChainInv
  <2> QED BY <2>5, <2>6, <2>7, <2>8, <2>9
<1> QED BY <1>1, <1>2

(* The task ends.                                                          *)
LEMMA TaskEndsStep ==
  ASSUME IInv, NEW result \in Results, TaskEnds(result)
  PROVE  IInv'
<1>1. result \in [completed : BOOLEAN, capsule : Capsules \cup {None}, caught : BOOLEAN]
  BY ResultTypes
<1>2. bot' \in Bots /\ bot'.pc = "ended" /\ bot'.msg = bot.msg
  BY <1>1 DEF TaskEnds, IInv, TypeOK, Bots, BotSteps
<1> QED BY <1>2, BotMovesOn DEF TaskEnds

(* The failure of the task that the bot has is in its chain and its step.  *)
LEMMA FailureIsInItsChain ==
  ASSUME IInv, bot.pc # "idle", NEW capsule \in Capsules
  PROVE  LET f == FailureOf(bot.msg, capsule)
         IN  /\ f \in Failures /\ f.msg = bot.msg
             /\ f.chain <= f.msg /\ (f.count = 0 <=> f.chain = f.msg)
             /\ jobs[f.msg].chain # None =>
                  f.chain = jobs[f.msg].chain /\ f.count = jobs[f.msg].count
<1> USE ConversationAssumption DEF IInv, Messages
<1> DEFINE m == bot.msg
           f == FailureOf(m, capsule)
<1>1. m \in Messages /\ jobs[m] \in Jobs /\ Linked(capsules, m, jobs[m])
  BY DEF PlaceInv, TypeOK, ChainInv
<1>2. f = [msg |-> m, code |-> capsule.code, act |-> capsule.act,
           chain |-> IF jobs[m].chain = None THEN m ELSE jobs[m].chain, count |-> jobs[m].count]
  BY DEF FailureOf
<1> HIDE DEF m, f
<1>3. f \in Failures
  BY <1>1, <1>2 DEF Failures, Jobs, Capsules
<1>4. CASE jobs[m].chain = None
  BY <1>1, <1>2, <1>3, <1>4 DEF Linked, m, f
<1>5. CASE jobs[m].chain # None
  <2>1. PICK g \in capsules : Precedes(g, m, jobs[m])
    BY <1>1, <1>5 DEF Linked
  <2>2. g \in Failures /\ g.chain <= g.msg
    BY DEF TypeOK, ChainInv
  <2>3. g.msg \in Nat /\ g.chain \in Nat /\ g.count \in Nat
    BY <2>2 DEF Failures
  <2>4. f.chain < m /\ f.count > 0 /\ f.msg = m
    BY <1>1, <1>2, <1>5, <2>1, <2>2, <2>3 DEF Precedes
  <2> QED BY <1>1, <1>2, <1>3, <1>5, <2>4 DEF m, f, Failures
<1> QED BY <1>4, <1>5

(* The failure enters the context.                                         *)
LEMMA EnqueueBrainStep ==
  ASSUME IInv, EnqueueBrain
  PROVE  IInv'
<1> USE ConversationAssumption DEF IInv
<1>1. bot' \in Bots /\ bot'.pc = "recorded" /\ bot'.msg = bot.msg /\ bot.pc = "ended"
  BY DEF EnqueueBrain, TypeOK, Bots, BotSteps
<1>2. CASE bot.capsule = None
  BY <1>1, <1>2, BotMovesOn DEF EnqueueBrain
<1>3. CASE bot.capsule # None
  <2> DEFINE f == FailureOf(bot.msg, bot.capsule)
  <2>1. bot.capsule \in Capsules /\ bot.msg \in Messages /\ jobs[bot.msg].state = "active"
    BY <1>1, <1>3 DEF TypeOK, Bots, PlaceInv
  <2>2. /\ context' = Recorded(context, bot.msg, f) /\ capsules' = capsules \cup {f}
        /\ UNCHANGED <<received, talk, jobs, baseline, told>>
    BY <1>3 DEF EnqueueBrain
  <2>3. /\ f \in Failures /\ f.msg = bot.msg
        /\ f.chain <= f.msg /\ (f.count = 0 <=> f.chain = f.msg)
        /\ jobs[f.msg].chain # None =>
             f.chain = jobs[f.msg].chain /\ f.count = jobs[f.msg].count
    BY <1>1, <2>1, FailureIsInItsChain
  <2> HIDE DEF f
  <2>4. context' \in Seq(Rounds(capsules'))
    <3>1. context \in Seq(Rounds(capsules \cup {f}))
      BY RoundsGrow DEF ContextInv
    <3> QED BY <2>1, <2>2, <3>1, RecordedKeeps
  <2>5. TypeOK'
    BY <1>1, <2>2, <2>3 DEF TypeOK
  <2>6. ContextInv'
    BY <2>2, <2>4 DEF ContextInv, Blocked, At
  <2>7. ToldInv'
    BY <2>2 DEF ToldInv
  <2>8. PlaceInv'
    BY <1>1, <2>1, <2>2, <2>3 DEF PlaceInv
  <2>9. ChainInv'
    <3>1. \A m \in Messages : Linked(capsules', m, jobs'[m])
      BY <2>2 DEF ChainInv, Linked
    <3>2. At("queueing")' => talk'.job \in Jobs /\ talk'.job.state = "waiting"
                               /\ Linked(capsules', talk'.msg, talk'.job)
      BY <2>2 DEF ChainInv, Linked, At
    <3> QED BY <2>2, <2>3, <3>1, <3>2 DEF ChainInv
  <2> QED BY <2>5, <2>6, <2>7, <2>8, <2>9
<1> QED BY <1>2, <1>3

(* The task is over and its error is recorded.                             *)
LEMMA PersistExperienceStep ==
  ASSUME IInv, PersistExperience
  PROVE  IInv'
<1>1. bot.msg \in Messages /\ jobs[bot.msg].state = "active"
  BY DEF PersistExperience, IInv, PlaceInv
<1>2. context' \in Seq(Rounds(capsules))
  BY <1>1, RecordedKeeps DEF PersistExperience, IInv, ContextInv
<1> QED BY <1>1, <1>2, JobGoes, Silence DEF PersistExperience, BotIdles

(* A sink fails: the end of the task is recorded again, or its job ends.   *)
LEMMA SinkFailsStep ==
  ASSUME IInv, SinkFails
  PROVE  IInv'
<1>1. bot.pc # "idle" /\ bot.msg \in Messages /\ jobs[bot.msg].state = "active"
  BY DEF SinkFails, IInv, PlaceInv
<1>2. CASE bot.caught
  BY <1>1, <1>2, JobGoes, Silence DEF SinkFails, BotIdles, IInv, ContextInv
<1>3. CASE ~ bot.caught
  <2> DEFINE capsule == [code |-> "unknown_error", act |-> None]
  <2>1a. capsule \in Capsules \cup {None}
    BY DEF Capsules, FailureCodes
  <2>1b. bot' = [bot EXCEPT !.pc = "ended", !.caught = TRUE, !.completed = FALSE,
                            !.capsule = capsule]
    BY <1>3 DEF SinkFails
  <2> HIDE DEF capsule
  <2>1. bot' \in Bots /\ bot'.pc = "ended" /\ bot'.msg = bot.msg
    BY <2>1a, <2>1b DEF IInv, TypeOK, Bots, BotSteps
  <2> QED BY <1>1, <1>3, <2>1, BotMovesOn DEF SinkFails
<1> QED BY <1>2, <1>3

(* A step that changes nothing keeps everything.                           *)
LEMMA StutterStep == IInv /\ UNCHANGED vars => IInv'
BY DEF IInv, vars, TypeOK, ContextInv, ToldInv, PlaceInv, ChainInv, Blocked, At

LEMMA Inductive == IInv /\ [Next]_vars => IInv'
<1> SUFFICES ASSUME IInv, [Next]_vars PROVE IInv'
  OBVIOUS
<1>1. CASE Receive
  BY <1>1, ReceiveStep
<1>2. CASE TalkStep
  BY <1>2, PullStep, TriageFailsStep, TriageStep, ChatPromptStep, PlanningContextStep,
     ReplyGeneratorStep, BroadcastReplyStep, RefuseStep, ReadLatestFailureStep, EnqueueStep,
     PlannerStep DEF TalkStep
<1>3. CASE BotStep
  BY <1>3, TakeTaskStep, TaskEndsStep, EnqueueBrainStep, PersistExperienceStep, SinkFailsStep
     DEF BotStep
<1>4. CASE Done \/ UNCHANGED vars
  BY <1>4, StutterStep DEF Done
<1> QED BY <1>1, <1>2, <1>3, <1>4 DEF Next

-----------------------------------------------------------------------------
(* The inductive invariant holds in every reachable state.                 *)
THEOREM Invariance == Spec => []IInv
BY Initially, Inductive, PTL DEF Spec

(* However messages, failures and sinks that fail interleave, a task of a  *)
(* recovery chain follows a failure of another message, one step earlier   *)
(* in the chain, that is worth another try and is not repeated; and what   *)
(* is recorded of the task stays in its chain.                             *)
THEOREM ChainsAreLinked == Spec => []ChainsLinkFailures
<1>1. IInv => ChainsLinkFailures
  BY DEF IInv, ChainInv, Linked, Precedes, ChainsLinkFailures
<1> QED BY <1>1, Invariance, PTL

(* Whichever LLM call fails and whichever prompt is dropped, what the      *)
(* prompts told adds up to the inventory the next change is counted from.  *)
THEOREM InventoryIsTold == Spec => []InventoryToldOnce
<1>1. IInv => InventoryToldOnce
  BY DEF IInv, ToldInv, InventoryToldOnce
<1> QED BY <1>1, Invariance, PTL
=============================================================================
