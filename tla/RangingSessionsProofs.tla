------------------------ MODULE RangingSessionsProofs ------------------------
(***************************************************************************)
(* Proofs about RangingSessions, for any set of sessions, any number of    *)
(* contexts and all options: its four invariants, from IInv, which adds to *)
(* them what each thread knows while it is at work.                        *)
(***************************************************************************)
EXTENDS RangingSessions, SequenceTheorems, WellFoundedInduction, TLAPS

Context == [session : Sessions, open : BOOLEAN, active : BOOLEAN]
Operation ==
  [at : {"idle", "set", "check", "aggregate", "unlock", "lock", "remove"},
   session : Sessions \union {"none"}, allow : BOOLEAN, update : BOOLEAN,
   cause : {"none", "start", "termination", "data", "suspended", "destroyed"}]

TypeInv ==
  /\ contexts \in Seq(Context) /\ Len(contexts) <= MaxContexts
  /\ stack \in [Sessions -> {"none", "granted", "ranging", "denied"}]
  /\ uwb \in [Sessions -> {"none", "idle", "ranging", "suspending", "suspended"}]
  /\ op \in [Threads -> Operation]
  /\ toSuspend \subseteq Sessions /\ door \in {"locked", "unlocked"}
FlagsInv == unsecured \in BOOLEAN /\ orderly \in BOOLEAN

Has(s) == \E i \in DOMAIN contexts : contexts[i].session = s

OrphanInv == \A s \in Sessions : uwb[s] # "none" => Has(s)

(* What each thread may be doing. Only the driver opens a session.          *)
ThreadInv ==
  /\ \A t \in Threads : op[t].at = "idle" => op[t] = Idle
  /\ op["driver"].at # "remove"
  /\ op["workqueue"].at \notin {"check", "unlock"}
  /\ ~op["workqueue"].allow /\ op["workqueue"].cause # "suspended"
  /\ \A t \in Threads : op[t].at \in {"aggregate", "lock"} => ~op[t].allow
  /\ \A t \in Threads : op[t].at = "unlock" => op[t].allow

(* A suspended session that is to update the reader has found no session    *)
(* open, and none was opened since.                                         *)
SuspendInv ==
  LET o == op["driver"] IN
  o.cause = "suspended" =>
    /\ ~o.allow /\ o.at \in {"check", "set", "aggregate"}
    /\ o.update /\ o.at # "check" => o.at = "set" /\ ~IsOpenAllowed

(* One thread works at a time, and updates the reader.                      *)
TurnsInv == orderly =>
  /\ \E t \in Threads : op[t] = Idle
  /\ \A t \in Threads : op[t].cause # "suspended" /\ op[t].at # "check"
  /\ \A t \in Threads : op[t] # Idle => op[t].update

(* Sessions that the driver knows, or that are open, are ranging.           *)
OpenInv == orderly =>
  /\ \A s \in Sessions : uwb[s] # "none" => stack[s] = "ranging"
  /\ \A i \in DOMAIN contexts : contexts[i].open => stack[contexts[i].session] = "ranging"
  /\ op["driver"].allow => \E s \in Sessions : op["driver"].session = s /\ stack[s] = "ranging"

(* A session that is about to be removed is closed.                         *)
ClosedInv ==
  orderly /\ op["workqueue"].at \in {"aggregate", "lock", "remove"} =>
    \A i \in DOMAIN contexts :
      contexts[i].session = op["workqueue"].session => ~contexts[i].open

(* How the door follows the sessions while a thread is working.             *)
DoorInv == orderly =>
  /\ (\A t \in Threads : op[t].at \in {"idle", "set", "remove"})
        => (door = "unlocked" <=> IsOpenAllowed)
  /\ \A t \in Threads :
       /\ op[t].at = "aggregate" => door = "unlocked"
       /\ op[t].at = "unlock" => IsOpenAllowed
       /\ op[t].at = "lock" => ~IsOpenAllowed

IInv ==
  /\ TypeInv /\ FlagsInv /\ OrphanInv /\ ThreadInv /\ SuspendInv
  /\ TurnsInv /\ OneContextPerSession /\ OpenInv /\ ClosedInv /\ DoorInv

-----------------------------------------------------------------------------
(* What the operators of the specification do to the list of contexts and to *)
(* the operations of the threads.                                            *)

(* A set of natural numbers has a least element.                            *)
LEMMA LeastIndex ==
  ASSUME NEW T, T \subseteq Nat, T # {}
  PROVE  \E i \in T : \A j \in T : i <= j
<1> DEFINE R == OpToRel(<, Nat)
<1>1. PICK x \in T : \A y \in T : <<y, x>> \notin R
  <2>1. IsWellFoundedOn(R, Nat)
    BY NatLessThanWellFounded
  <2> HIDE DEF R
  <2> QED
    BY <2>1, WFMin
<1>2. \A y \in T : ~(y < x)
  BY <1>1 DEF OpToRel
<1> QED
  BY <1>2

(* Find returns a context of the session, if there is one.                  *)
LEMMA FindFirst ==
  ASSUME contexts \in Seq(Context), NEW s
  PROVE  /\ Find(s) # 0 => Find(s) \in DOMAIN contexts /\ contexts[Find(s)].session = s
         /\ Find(s) = 0 => \A i \in DOMAIN contexts : contexts[i].session # s
<1> DEFINE Of == {i \in DOMAIN contexts : contexts[i].session = s}
<1>1. Of \subseteq Nat /\ 0 \notin Of
  BY LenProperties
<1>2. CASE Of = {}
  BY <1>2 DEF Find
<1>3. CASE Of # {}
  <2>1. \E i \in Of : \A j \in Of : i <= j
    BY <1>1, <1>3, LeastIndex
  <2>2. Find(s) \in Of
    BY <1>3, <2>1 DEF Find
  <2> QED
    BY <1>1, <2>2
<1> QED
  BY <1>2, <1>3

(* What RemoveAt does to a sequence.                                        *)
LEMMA RemoveAtSeq ==
  ASSUME NEW S, NEW c \in Seq(S), NEW k \in 1..Len(c)
  PROVE  /\ RemoveAt(c, k) \in Seq(S)
         /\ Len(RemoveAt(c, k)) = Len(c) - 1
         /\ \A j \in 1..(Len(c) - 1) : RemoveAt(c, k)[j] = IF j < k THEN c[j] ELSE c[j + 1]
<1> DEFINE a == SubSeq(c, 1, k - 1)
           b == SubSeq(c, k + 1, Len(c))
<1>0. Len(c) \in Nat /\ \A i \in 1..Len(c) : c[i] \in S
  BY ElementOfSeq, LenProperties
<1>1. /\ a \in Seq(S) /\ Len(a) = k - 1
      /\ \A i \in 1..(k - 1) : a[i] = c[i]
  <2>1. \A i \in 1..(k - 1) : c[i] \in S
    BY <1>0
  <2>2. /\ a \in Seq(S) /\ Len(a) = IF 1 <= k - 1 THEN k - 1 - 1 + 1 ELSE 0
        /\ \A i \in 1..((k - 1) - 1 + 1) : a[i] = c[1 + i - 1]
    BY <1>0, <2>1, SubSeqProperties
  <2> QED
    BY <1>0, <2>2
<1>2. /\ b \in Seq(S) /\ Len(b) = Len(c) - k
      /\ \A i \in 1..(Len(c) - k) : b[i] = c[k + i]
  <2>1. \A i \in (k + 1)..Len(c) : c[i] \in S
    BY <1>0
  <2>2. /\ b \in Seq(S) /\ Len(b) = IF k + 1 <= Len(c) THEN Len(c) - (k + 1) + 1 ELSE 0
        /\ \A i \in 1..(Len(c) - (k + 1) + 1) : b[i] = c[k + 1 + i - 1]
    BY <1>0, <2>1, SubSeqProperties
  <2> QED
    BY <1>0, <2>2
<1> HIDE DEF a, b
<1>3. RemoveAt(c, k) = a \o b
  BY DEF RemoveAt, a, b
<1>4. /\ a \o b \in Seq(S) /\ Len(a \o b) = Len(a) + Len(b)
      /\ \A i \in 1..(Len(a) + Len(b)) : (a \o b)[i] = IF i <= Len(a) THEN a[i] ELSE b[i - Len(a)]
  BY <1>1, <1>2, ConcatProperties
<1>5. ASSUME NEW j \in 1..(Len(c) - 1)
      PROVE  (a \o b)[j] = IF j < k THEN c[j] ELSE c[j + 1]
  <2>1. CASE j < k
    BY <1>0, <1>1, <1>2, <1>4, <2>1
  <2>2. CASE ~(j < k)
    <3>1. (a \o b)[j] = b[j - (k - 1)]
      BY <1>0, <1>1, <1>2, <1>4, <2>2
    <3>2. j - (k - 1) \in 1..(Len(c) - k) /\ k + (j - (k - 1)) = j + 1
      BY <1>0, <2>2
    <3> QED
      BY <1>2, <2>2, <3>1, <3>2
  <2> QED
    BY <2>1, <2>2
<1> QED
  BY <1>0, <1>1, <1>2, <1>3, <1>4, <1>5
(* The sessions of the contexts.                                            *)
LEMMA ContextSessions ==
  ASSUME TypeInv
  PROVE  /\ DOMAIN contexts = 1..Len(contexts) /\ Len(contexts) \in Nat
         /\ \A i \in DOMAIN contexts : contexts[i].session \in Sessions /\ contexts[i].open \in BOOLEAN
<1>1. \A i \in 1..Len(contexts) : contexts[i] \in Context
  BY ElementOfSeq DEF TypeInv
<1> QED
  BY <1>1, LenProperties DEF TypeInv, Context

(* No session appears or disappears, none is opened or closed.              *)
ContextsKept ==
  /\ contexts' \in Seq(Context) /\ Len(contexts') = Len(contexts)
  /\ DOMAIN contexts' = DOMAIN contexts
  /\ \A i \in DOMAIN contexts : /\ contexts'[i].session = contexts[i].session
                                /\ contexts'[i].open = contexts[i].open

(* A step that does not touch them keeps them.                              *)
LEMMA SameContexts == TypeInv /\ UNCHANGED contexts => ContextsKept
  BY DEF TypeInv, ContextsKept

(* So does one that notes whether a session is active.                      *)
LEMMA RangingKeeps ==
  ASSUME TypeInv, NEW s \in Sessions, NEW active \in BOOLEAN, SetRanging(s, active)
  PROVE  ContextsKept
<1>1. CASE SuspendWhenUnsecured /\ Find(s) # 0
  <2> DEFINE k == Find(s)
             e == [contexts[k] EXCEPT !.active = active]
  <2>1. k \in 1..Len(contexts)
    BY <1>1, FindFirst, LenProperties DEF TypeInv
  <2>2. contexts[k] \in Context
    BY <2>1, ElementOfSeq DEF TypeInv
  <2>3. e \in Context /\ e.session = contexts[k].session /\ e.open = contexts[k].open
    BY <2>2 DEF Context
  <2>4. contexts' = [contexts EXCEPT ![k] = e]
    BY <1>1 DEF SetRanging
  <2> HIDE DEF k, e
  <2>5. /\ contexts' \in Seq(Context) /\ Len(contexts') = Len(contexts)
        /\ \A j \in 1..Len(contexts) : contexts'[j] = IF j = k THEN e ELSE contexts[j]
    BY <2>1, <2>3, <2>4, ExceptSeq DEF TypeInv
  <2>6. DOMAIN contexts' = DOMAIN contexts /\ DOMAIN contexts = 1..Len(contexts)
    BY <2>5, LenProperties DEF TypeInv
  <2> QED
    BY <2>3, <2>5, <2>6 DEF ContextsKept
<1>2. CASE ~(SuspendWhenUnsecured /\ Find(s) # 0)
  BY <1>2, SameContexts DEF SetRanging
<1> QED
  BY <1>1, <1>2

(* The session of a context is opened or closed.                            *)
SetOpen(s, a) == contexts' = [contexts EXCEPT ![Find(s)].open = a]

LEMMA OpenStep ==
  ASSUME TypeInv, NEW s, NEW a \in BOOLEAN, Find(s) # 0, SetOpen(s, a)
  PROVE  /\ contexts' \in Seq(Context) /\ Len(contexts') = Len(contexts)
         /\ DOMAIN contexts' = DOMAIN contexts
         /\ Find(s) \in DOMAIN contexts /\ contexts[Find(s)].session = s
         /\ \A i \in DOMAIN contexts :
              /\ contexts'[i].session = contexts[i].session
              /\ contexts'[i].open = IF i = Find(s) THEN a ELSE contexts[i].open
<1> DEFINE k == Find(s)
           e == [contexts[k] EXCEPT !.open = a]
<1>1. k \in 1..Len(contexts) /\ contexts[k].session = s
  BY FindFirst, LenProperties DEF TypeInv
<1>2. contexts[k] \in Context
  BY <1>1, ElementOfSeq DEF TypeInv
<1>3. e \in Context /\ e.session = contexts[k].session /\ e.open = a
  BY <1>2 DEF Context
<1>4. contexts' = [contexts EXCEPT ![k] = e]
  BY DEF SetOpen
<1> HIDE DEF k, e
<1>5. /\ contexts' \in Seq(Context) /\ Len(contexts') = Len(contexts)
      /\ \A j \in 1..Len(contexts) : contexts'[j] = IF j = k THEN e ELSE contexts[j]
  BY <1>1, <1>3, <1>4, ExceptSeq DEF TypeInv
<1>6. DOMAIN contexts' = DOMAIN contexts /\ DOMAIN contexts = 1..Len(contexts)
  BY <1>5, LenProperties DEF TypeInv
<1> QED
  BY <1>1, <1>3, <1>5, <1>6 DEF k

(* A context is added: it is closed.                                        *)
LEMMA AppendStep ==
  ASSUME TypeInv, NEW s \in Sessions,
         contexts' = Append(contexts, [session |-> s, open |-> FALSE, active |-> FALSE])
  PROVE  /\ contexts' \in Seq(Context) /\ Len(contexts') = Len(contexts) + 1
         /\ DOMAIN contexts = 1..Len(contexts) /\ DOMAIN contexts' = 1..(Len(contexts) + 1)
         /\ \A i \in DOMAIN contexts : contexts'[i] = contexts[i]
         /\ contexts'[Len(contexts) + 1].session = s /\ ~contexts'[Len(contexts) + 1].open
<1> DEFINE e == [session |-> s, open |-> FALSE, active |-> FALSE]
<1>1. e \in Context /\ e.session = s /\ ~e.open
  BY DEF Context
<1> HIDE DEF e
<1>2. contexts' = Append(contexts, e)
  BY DEF e
<1>3. /\ contexts' \in Seq(Context) /\ Len(contexts') = Len(contexts) + 1
      /\ \A i \in 1..Len(contexts) : contexts'[i] = contexts[i]
      /\ contexts'[Len(contexts) + 1] = e
  BY <1>1, <1>2, AppendProperties DEF TypeInv
<1>4. DOMAIN contexts = 1..Len(contexts) /\ DOMAIN contexts' = 1..(Len(contexts) + 1)
  BY <1>3, LenProperties DEF TypeInv
<1> QED
  BY <1>1, <1>3, <1>4

(* The first context of a session is removed.                               *)
LEMMA RemoveStep ==
  ASSUME TypeInv, NEW s, Find(s) # 0, contexts' = RemoveAt(contexts, Find(s))
  PROVE  /\ contexts' \in Seq(Context) /\ Len(contexts') = Len(contexts) - 1
         /\ DOMAIN contexts = 1..Len(contexts) /\ DOMAIN contexts' = 1..(Len(contexts) - 1)
         /\ Find(s) \in DOMAIN contexts /\ contexts[Find(s)].session = s
         /\ \A i \in DOMAIN contexts' :
              contexts'[i] = IF i < Find(s) THEN contexts[i] ELSE contexts[i + 1]
         /\ \A i \in DOMAIN contexts' :
              \E j \in DOMAIN contexts : j # Find(s) /\ contexts'[i] = contexts[j]
         /\ \A j \in DOMAIN contexts :
              j # Find(s) => \E i \in DOMAIN contexts' : contexts'[i] = contexts[j]
<1>1. DOMAIN contexts = 1..Len(contexts)
  BY LenProperties DEF TypeInv
<1>2. Find(s) \in 1..Len(contexts) /\ contexts[Find(s)].session = s
  BY <1>1, FindFirst DEF TypeInv
<1>3. /\ contexts' \in Seq(Context) /\ Len(contexts') = Len(contexts) - 1
      /\ \A j \in 1..(Len(contexts) - 1) :
           contexts'[j] = IF j < Find(s) THEN contexts[j] ELSE contexts[j + 1]
  BY <1>2, RemoveAtSeq DEF TypeInv
<1>4. DOMAIN contexts' = 1..(Len(contexts) - 1) /\ Len(contexts) \in Nat
  BY <1>3, LenProperties DEF TypeInv
<1>5. \A i \in DOMAIN contexts' :
        \E j \in DOMAIN contexts : j # Find(s) /\ contexts'[i] = contexts[j]
  <2> SUFFICES ASSUME NEW i \in DOMAIN contexts'
               PROVE  \E j \in DOMAIN contexts : j # Find(s) /\ contexts'[i] = contexts[j]
    OBVIOUS
  <2>1. CASE i < Find(s)
    BY <1>1, <1>2, <1>3, <1>4, <2>1
  <2>2. CASE ~(i < Find(s))
    <3>1. i + 1 \in DOMAIN contexts /\ i + 1 # Find(s) /\ contexts'[i] = contexts[i + 1]
      BY <1>1, <1>2, <1>3, <1>4, <2>2
    <3> QED
      BY <3>1
  <2> QED
    BY <2>1, <2>2
<1>6. \A j \in DOMAIN contexts :
        j # Find(s) => \E i \in DOMAIN contexts' : contexts'[i] = contexts[j]
  <2> SUFFICES ASSUME NEW j \in DOMAIN contexts, j # Find(s)
               PROVE  \E i \in DOMAIN contexts' : contexts'[i] = contexts[j]
    OBVIOUS
  <2>1. CASE j < Find(s)
    BY <1>1, <1>2, <1>3, <1>4, <2>1
  <2>2. CASE ~(j < Find(s))
    <3>1. j - 1 \in DOMAIN contexts' /\ contexts'[j - 1] = contexts[j]
      BY <1>1, <1>2, <1>3, <1>4, <2>2
    <3> QED
      BY <3>1
  <2> QED
    BY <2>1, <2>2
<1> QED
  BY <1>1, <1>2, <1>3, <1>4, <1>5, <1>6

(* A thread begins an operation.                                            *)
LEMMA BeginStep ==
  ASSUME op \in [Threads -> Operation], NEW t \in Threads,
         NEW at \in {"set", "check", "remove"}, NEW s \in Sessions, NEW allow \in BOOLEAN,
         NEW cause \in {"start", "termination", "data", "suspended", "destroyed"},
         Begin(t, at, s, allow, cause)
  PROVE  /\ op' \in [Threads -> Operation]
         /\ op[t] = Idle
         /\ op'[t].at = at /\ op'[t].session = s /\ op'[t].allow = allow
         /\ op'[t].update = TRUE /\ op'[t].cause = cause
         /\ \A r \in Threads : r # t => op'[r] = op[r]
<1> DEFINE o == [at |-> at, session |-> s, allow |-> allow, update |-> TRUE, cause |-> cause]
<1>1. o \in Operation
  BY DEF Operation
<1>2. /\ o.at = at /\ o.session = s /\ o.allow = allow /\ o.update = TRUE /\ o.cause = cause
  OBVIOUS
<1>3. op' = [op EXCEPT ![t] = o] /\ op[t] = Idle
  BY DEF Begin, MayBegin
<1> HIDE DEF o
<1> QED
  BY <1>1, <1>2, <1>3

(* It goes on with it.                                                      *)
LEMMA GoToStep ==
  ASSUME op \in [Threads -> Operation], NEW t \in Threads,
         NEW at \in {"aggregate", "unlock", "lock"}, GoTo(t, at)
  PROVE  /\ op' \in [Threads -> Operation]
         /\ op'[t].at = at /\ op'[t].session = op[t].session /\ op'[t].allow = op[t].allow
         /\ op'[t].update = op[t].update /\ op'[t].cause = op[t].cause
         /\ \A r \in Threads : r # t => op'[r] = op[r]
  BY DEF GoTo, Operation

(* It returns; a termination goes on to remove the context.                 *)
LEMMA ReturnStep ==
  ASSUME op \in [Threads -> Operation], NEW t \in Threads, Return(t)
  PROVE  /\ op' \in [Threads -> Operation]
         /\ t # "workqueue" => op'[t] = Idle
         /\ t = "workqueue" =>
              /\ op'[t].at = "remove" /\ op'[t].session = op[t].session
              /\ op'[t].allow = op[t].allow /\ op'[t].update = op[t].update
              /\ op'[t].cause = op[t].cause
         /\ \A r \in Threads : r # t => op'[r] = op[r]
  BY DEF Return, Operation, Idle

-----------------------------------------------------------------------------
(* A step that keeps the contexts keeps what is asked of them.              *)
LEMMA KeptHas ==
  ASSUME ContextsKept
  PROVE  /\ \A s \in Sessions : Has(s)' <=> Has(s)
         /\ IsOpenAllowed' <=> IsOpenAllowed
  BY DEF ContextsKept, Has, IsOpenAllowed

(* EvaluateUwbOpenAllowed says yes or no.                                   *)
LEMMA EvaluateBoolean ==
  ASSUME NEW s, NEW distance
  PROVE  EvaluateUwbOpenAllowed(s, distance) \in BOOLEAN
  BY DEF EvaluateUwbOpenAllowed

(* The driver measured a distance: SetOpenAllowed begins.                   *)
LEMMA DataStep ==
  ASSUME IInv, NEW s \in Sessions, NEW distance \in {"near", "margin", "far"},
         RangingData(s, distance) PROVE IInv'
<1>1. ContextsKept
  BY SameContexts DEF RangingData, IInv
<1>2. /\ op' \in [Threads -> Operation]
      /\ op["driver"] = Idle /\ op'["workqueue"] = op["workqueue"]
      /\ op'["driver"].at = "set" /\ op'["driver"].session = s
      /\ op'["driver"].update /\ op'["driver"].cause = "data"
  <2>1. \/ Begin("driver", "set", s, TRUE, "data")
        \/ Begin("driver", "set", s, FALSE, "data")
    <3>1. EvaluateUwbOpenAllowed(s, distance) \in BOOLEAN
      BY EvaluateBoolean
    <3>2. Begin("driver", "set", s, EvaluateUwbOpenAllowed(s, distance), "data")
      BY DEF RangingData
    <3> QED
      BY <3>1, <3>2
  <2> QED
    BY <2>1, BeginStep DEF IInv, TypeInv, Threads
<1>3. orderly' => orderly /\ \E r \in Threads : op[r] = Idle /\ op'[r] = Idle
  BY DEF RangingData, TakeTurns, Disorder
<1>4. TypeInv'
  BY <1>1, <1>2 DEF RangingData, IInv, TypeInv, ContextsKept, suspension
<1>5. FlagsInv'
  BY Zenon DEF RangingData, IInv, FlagsInv, TakeTurns, Disorder, suspension
<1>6. OrphanInv'
  BY <1>1, KeptHas DEF RangingData, IInv, TypeInv, OrphanInv, Has
<1>7. ThreadInv'
  BY <1>2 DEF RangingData, IInv, ThreadInv, Threads, Idle
<1>8. SuspendInv'
  BY <1>1, <1>2, KeptHas
     DEF RangingData, IInv, SuspendInv, ThreadInv, Threads, Idle, IsOpenAllowed
<1>9. TurnsInv'
  BY <1>2, <1>3 DEF RangingData, IInv, TurnsInv, ThreadInv, Threads, Idle
<1>10. OneContextPerSession'
  BY <1>1, <1>2, <1>3
     DEF RangingData, IInv, TypeInv, OneContextPerSession, ContextsKept, TurnsInv,
         ThreadInv, Threads, Idle
<1>11. OpenInv'
  BY <1>1, <1>2, <1>3
     DEF RangingData, IInv, TypeInv, OpenInv, ContextsKept, TurnsInv, ThreadInv,
         Threads, Idle, Context
<1>12. ClosedInv'
  BY <1>1, <1>2, <1>3
     DEF RangingData, IInv, TypeInv, ClosedInv, ContextsKept, TurnsInv, ThreadInv,
         Threads, Idle
<1>13. DoorInv'
  BY <1>1, <1>2, <1>3, KeptHas
     DEF RangingData, IInv, DoorInv, TurnsInv, ThreadInv, Threads, Idle
<1> QED
  BY <1>4, <1>5, <1>6, <1>7, <1>8, <1>9, <1>10, <1>11, <1>12, <1>13 DEF IInv

(* Ranging started or resumed.                                              *)
LEMMA StartedStep ==
  ASSUME IInv, NEW s \in Sessions, RangingStarted(s) PROVE IInv'
<1>1. ContextsKept
  BY RangingKeeps DEF RangingStarted, IInv
<1>2. op' = op /\ op \in [Threads -> Operation]
  BY DEF RangingStarted, IInv, TypeInv
<1>3. orderly' => orderly /\ \E r \in Threads : op[r] = Idle /\ op'[r] = Idle
  BY DEF RangingStarted, TakeTurns, Disorder
<1>4. TypeInv'
  BY <1>1, <1>2 DEF RangingStarted, IInv, TypeInv, ContextsKept, suspension
<1>5. FlagsInv'
  BY Zenon DEF RangingStarted, IInv, FlagsInv, TakeTurns, Disorder, suspension
<1>6. OrphanInv'
  BY <1>1, KeptHas DEF RangingStarted, IInv, TypeInv, OrphanInv, Has
<1>7. ThreadInv'
  BY <1>2 DEF RangingStarted, IInv, ThreadInv, Threads, Idle
<1>8. SuspendInv'
  BY <1>1, <1>2, KeptHas
     DEF RangingStarted, IInv, SuspendInv, ThreadInv, Threads, Idle, IsOpenAllowed
<1>9. TurnsInv'
  BY <1>2, <1>3 DEF RangingStarted, IInv, TurnsInv, ThreadInv, Threads, Idle
<1>10. OneContextPerSession'
  BY <1>1, <1>2, <1>3
     DEF RangingStarted, IInv, TypeInv, OneContextPerSession, ContextsKept, TurnsInv,
         ThreadInv, Threads, Idle
<1>11. OpenInv'
  BY <1>1, <1>2, <1>3
     DEF RangingStarted, IInv, TypeInv, OpenInv, ContextsKept, TurnsInv, ThreadInv,
         Threads, Idle, Context
<1>12. ClosedInv'
  BY <1>1, <1>2, <1>3
     DEF RangingStarted, IInv, TypeInv, ClosedInv, ContextsKept, TurnsInv, ThreadInv,
         Threads, Idle
<1>13. DoorInv'
  BY <1>1, <1>2, <1>3, KeptHas
     DEF RangingStarted, IInv, DoorInv, TurnsInv, ThreadInv, Threads, Idle
<1> QED
  BY <1>4, <1>5, <1>6, <1>7, <1>8, <1>9, <1>10, <1>11, <1>12, <1>13 DEF IInv

(* Ranging was suspended: things are no longer orderly.                     *)
LEMMA SuspendedStep ==
  ASSUME IInv, NEW s \in Sessions, RangingSuspended(s) PROVE IInv'
<1>1. ContextsKept
  BY RangingKeeps DEF RangingSuspended, IInv
<1>2. /\ op' \in [Threads -> Operation]
      /\ op["driver"] = Idle /\ op'["workqueue"] = op["workqueue"]
      /\ op'["driver"].at = "check" /\ op'["driver"].session = s /\ op'["driver"].allow = FALSE
      /\ op'["driver"].update /\ op'["driver"].cause = "suspended"
  BY BeginStep DEF RangingSuspended, IInv, TypeInv, Threads
<1>3. orderly' => orderly /\ \E r \in Threads : op[r] = Idle /\ op'[r] = Idle
  BY DEF RangingSuspended, TakeTurns, Disorder
<1>4. TypeInv'
  BY <1>1, <1>2 DEF RangingSuspended, IInv, TypeInv, ContextsKept, suspension
<1>5. FlagsInv'
  BY Zenon DEF RangingSuspended, IInv, FlagsInv, TakeTurns, Disorder, suspension
<1>6. OrphanInv'
  BY <1>1, KeptHas DEF RangingSuspended, IInv, TypeInv, OrphanInv, Has
<1>7. ThreadInv'
  BY <1>2 DEF RangingSuspended, IInv, ThreadInv, Threads, Idle
<1>8. SuspendInv'
  BY <1>2 DEF SuspendInv
<1>9. TurnsInv'
  BY DEF RangingSuspended, Disorder, TurnsInv
<1>10. OneContextPerSession'
  BY DEF RangingSuspended, Disorder, OneContextPerSession
<1>11. OpenInv'
  BY DEF RangingSuspended, Disorder, OpenInv
<1>12. ClosedInv'
  BY DEF RangingSuspended, Disorder, ClosedInv
<1>13. DoorInv'
  BY DEF RangingSuspended, Disorder, DoorInv
<1> QED
  BY <1>4, <1>5, <1>6, <1>7, <1>8, <1>9, <1>10, <1>11, <1>12, <1>13 DEF IInv

(* The driver ended a session: it is to be closed.                          *)
LEMMA DestroyedStep ==
  ASSUME IInv, NEW s \in Sessions, RangingDestroyed(s) PROVE IInv'
<1>1. ContextsKept
  BY RangingKeeps DEF RangingDestroyed, IInv
<1>2. /\ op' \in [Threads -> Operation]
      /\ op["driver"] = Idle /\ op'["workqueue"] = op["workqueue"]
      /\ op'["driver"].at = "set" /\ op'["driver"].session = s /\ op'["driver"].allow = FALSE
      /\ op'["driver"].update /\ op'["driver"].cause = "destroyed"
  BY BeginStep DEF RangingDestroyed, IInv, TypeInv, Threads
<1>3. orderly' => orderly /\ \E r \in Threads : op[r] = Idle /\ op'[r] = Idle
  BY DEF RangingDestroyed, TakeTurns, Disorder
<1>4. TypeInv'
  BY <1>1, <1>2 DEF RangingDestroyed, IInv, TypeInv, ContextsKept, suspension
<1>5. FlagsInv'
  BY Zenon DEF RangingDestroyed, IInv, FlagsInv, TakeTurns, Disorder, suspension
<1>6. OrphanInv'
  BY <1>1, KeptHas DEF RangingDestroyed, IInv, TypeInv, OrphanInv, Has
<1>7. ThreadInv'
  BY <1>2 DEF RangingDestroyed, IInv, ThreadInv, Threads, Idle
<1>8. SuspendInv'
  BY <1>1, <1>2, KeptHas
     DEF RangingDestroyed, IInv, SuspendInv, ThreadInv, Threads, Idle, IsOpenAllowed
<1>9. TurnsInv'
  BY <1>2, <1>3 DEF RangingDestroyed, IInv, TurnsInv, ThreadInv, Threads, Idle
<1>10. OneContextPerSession'
  BY <1>1, <1>2, <1>3
     DEF RangingDestroyed, IInv, TypeInv, OneContextPerSession, ContextsKept,
         TurnsInv, ThreadInv, Threads, Idle
<1>11. OpenInv'
  <2>1. orderly' => \A r \in Sessions : uwb'[r] # "none" => stack'[r] = "ranging"
    BY <1>3 DEF RangingDestroyed, IInv, TypeInv, OpenInv
  <2>2. orderly' => \A i \in DOMAIN contexts' :
           contexts'[i].open => stack'[contexts'[i].session] = "ranging"
    BY <1>1, <1>3 DEF RangingDestroyed, IInv, OpenInv, ContextsKept
  <2>3. ~op'["driver"].allow
    BY <1>2
  <2> QED
    BY <2>1, <2>2, <2>3 DEF OpenInv
<1>12. ClosedInv'
  BY <1>1, <1>2, <1>3
     DEF RangingDestroyed, IInv, TypeInv, ClosedInv, ContextsKept, TurnsInv,
         ThreadInv, Threads, Idle
<1>13. DoorInv'
  BY <1>1, <1>2, <1>3, KeptHas
     DEF RangingDestroyed, IInv, DoorInv, TurnsInv, ThreadInv, Threads, Idle
<1> QED
  BY <1>4, <1>5, <1>6, <1>7, <1>8, <1>9, <1>10, <1>11, <1>12, <1>13 DEF IInv

(* The argument of SetOpenAllowed: whether no session is open.              *)
LEMMA CheckStep ==
  ASSUME IInv, CheckOpenAllowed PROVE IInv'
<1>1. ContextsKept
  BY SameContexts DEF CheckOpenAllowed, IInv
<1>2. /\ op' \in [Threads -> Operation] /\ op'["workqueue"] = op["workqueue"]
      /\ op["driver"].at = "check" /\ op'["driver"].at = "set"
      /\ op'["driver"].session = op["driver"].session
      /\ op'["driver"].allow = op["driver"].allow /\ op'["driver"].cause = op["driver"].cause
      /\ op'["driver"].update = ~IsOpenAllowed
  BY DEF CheckOpenAllowed, IInv, TypeInv, Operation, Threads
<1>3. orderly' => orderly /\ \E r \in Threads : op[r] = Idle /\ op'[r] = Idle
  BY DEF CheckOpenAllowed, TakeTurns, Disorder
<1>4. TypeInv'
  BY <1>1, <1>2 DEF CheckOpenAllowed, IInv, TypeInv, ContextsKept, suspension
<1>5. FlagsInv'
  BY Zenon DEF CheckOpenAllowed, IInv, FlagsInv, TakeTurns, Disorder, suspension
<1>6. OrphanInv'
  BY <1>1, KeptHas DEF CheckOpenAllowed, IInv, TypeInv, OrphanInv, Has
<1>7. ThreadInv'
  BY <1>2 DEF CheckOpenAllowed, IInv, ThreadInv, Threads, Idle
<1>8. SuspendInv'
  BY <1>1, <1>2, KeptHas
     DEF CheckOpenAllowed, IInv, SuspendInv, ThreadInv, Threads, Idle, IsOpenAllowed
<1>9. TurnsInv'
  BY <1>2, <1>3 DEF CheckOpenAllowed, IInv, TurnsInv, ThreadInv, Threads, Idle
<1>10. OneContextPerSession'
  BY <1>1, <1>2, <1>3
     DEF CheckOpenAllowed, IInv, TypeInv, OneContextPerSession, ContextsKept,
         TurnsInv, ThreadInv, Threads, Idle
<1>11. OpenInv'
  BY <1>1, <1>2, <1>3
     DEF CheckOpenAllowed, IInv, TypeInv, OpenInv, ContextsKept, TurnsInv, ThreadInv,
         Threads, Idle, Context
<1>12. ClosedInv'
  BY <1>1, <1>2, <1>3
     DEF CheckOpenAllowed, IInv, TypeInv, ClosedInv, ContextsKept, TurnsInv,
         ThreadInv, Threads, Idle
<1>13. DoorInv'
  BY <1>1, <1>2, <1>3, KeptHas
     DEF CheckOpenAllowed, IInv, DoorInv, TurnsInv, ThreadInv, Threads, Idle
<1> QED
  BY <1>4, <1>5, <1>6, <1>7, <1>8, <1>9, <1>10, <1>11, <1>12, <1>13 DEF IInv

(* The active sessions were found.                                          *)
LEMMA FoundStep ==
  ASSUME IInv, FindActiveSessions PROVE IInv'
<1>1. ContextsKept
  BY SameContexts DEF FindActiveSessions, IInv
<1>2. op' = op /\ op \in [Threads -> Operation]
  BY DEF FindActiveSessions, IInv, TypeInv
<1>3. orderly' => orderly /\ \E r \in Threads : op[r] = Idle /\ op'[r] = Idle
  BY DEF FindActiveSessions, TakeTurns, Disorder
<1>4. TypeInv'
  <2>1. \A i \in DOMAIN contexts : contexts[i].session \in Sessions
    <3>1. \A i \in DOMAIN contexts : contexts[i] \in Context
      BY ElementOfSeq, LenProperties DEF IInv, TypeInv
    <3> QED
      BY <3>1 DEF Context
  <2>2. toSuspend' \subseteq Sessions
    BY <2>1 DEF FindActiveSessions
  <2> QED
    BY <1>1, <1>2, <2>2 DEF FindActiveSessions, IInv, TypeInv, ContextsKept
<1>5. FlagsInv'
  BY Zenon DEF FindActiveSessions, IInv, FlagsInv, TakeTurns, Disorder, suspension
<1>6. OrphanInv'
  BY <1>1, KeptHas DEF FindActiveSessions, IInv, TypeInv, OrphanInv, Has
<1>7. ThreadInv'
  BY <1>2 DEF FindActiveSessions, IInv, ThreadInv, Threads, Idle
<1>8. SuspendInv'
  BY <1>1, <1>2, KeptHas
     DEF FindActiveSessions, IInv, SuspendInv, ThreadInv, Threads, Idle, IsOpenAllowed
<1>9. TurnsInv'
  BY <1>2, <1>3 DEF FindActiveSessions, IInv, TurnsInv, ThreadInv, Threads, Idle
<1>10. OneContextPerSession'
  BY <1>1, <1>2, <1>3
     DEF FindActiveSessions, IInv, TypeInv, OneContextPerSession, ContextsKept,
         TurnsInv, ThreadInv, Threads, Idle
<1>11. OpenInv'
  BY <1>1, <1>2, <1>3
     DEF FindActiveSessions, IInv, TypeInv, OpenInv, ContextsKept, TurnsInv,
         ThreadInv, Threads, Idle, Context
<1>12. ClosedInv'
  BY <1>1, <1>2, <1>3
     DEF FindActiveSessions, IInv, TypeInv, ClosedInv, ContextsKept, TurnsInv,
         ThreadInv, Threads, Idle
<1>13. DoorInv'
  BY <1>1, <1>2, <1>3, KeptHas
     DEF FindActiveSessions, IInv, DoorInv, TurnsInv, ThreadInv, Threads, Idle
<1> QED
  BY <1>4, <1>5, <1>6, <1>7, <1>8, <1>9, <1>10, <1>11, <1>12, <1>13 DEF IInv

(* One of them is suspended.                                                *)
LEMMA SuspendOneStep ==
  ASSUME IInv, NEW s \in Sessions, SuspendRangingSession(s) PROVE IInv'
<1>1. ContextsKept
  BY SameContexts DEF SuspendRangingSession, IInv
<1>2. op' = op /\ op \in [Threads -> Operation]
  BY DEF SuspendRangingSession, IInv, TypeInv
<1>3. orderly' => orderly /\ \E r \in Threads : op[r] = Idle /\ op'[r] = Idle
  BY DEF SuspendRangingSession, TakeTurns, Disorder
<1>4. TypeInv'
  BY <1>1, <1>2 DEF SuspendRangingSession, IInv, TypeInv, ContextsKept, suspension
<1>5. FlagsInv'
  BY Zenon DEF SuspendRangingSession, IInv, FlagsInv, TakeTurns, Disorder, suspension
<1>6. OrphanInv'
  BY <1>1, KeptHas DEF SuspendRangingSession, IInv, TypeInv, OrphanInv, Has
<1>7. ThreadInv'
  BY <1>2 DEF SuspendRangingSession, IInv, ThreadInv, Threads, Idle
<1>8. SuspendInv'
  BY <1>1, <1>2, KeptHas
     DEF SuspendRangingSession, IInv, SuspendInv, ThreadInv, Threads, Idle,
         IsOpenAllowed
<1>9. TurnsInv'
  BY <1>2, <1>3 DEF SuspendRangingSession, IInv, TurnsInv, ThreadInv, Threads, Idle
<1>10. OneContextPerSession'
  BY <1>1, <1>2, <1>3
     DEF SuspendRangingSession, IInv, TypeInv, OneContextPerSession, ContextsKept,
         TurnsInv, ThreadInv, Threads, Idle
<1>11. OpenInv'
  BY <1>1, <1>2, <1>3
     DEF SuspendRangingSession, IInv, TypeInv, OpenInv, ContextsKept, TurnsInv,
         ThreadInv, Threads, Idle, Context
<1>12. ClosedInv'
  BY <1>1, <1>2, <1>3
     DEF SuspendRangingSession, IInv, TypeInv, ClosedInv, ContextsKept, TurnsInv,
         ThreadInv, Threads, Idle
<1>13. DoorInv'
  BY <1>1, <1>2, <1>3, KeptHas
     DEF SuspendRangingSession, IInv, DoorInv, TurnsInv, ThreadInv, Threads, Idle
<1> QED
  BY <1>4, <1>5, <1>6, <1>7, <1>8, <1>9, <1>10, <1>11, <1>12, <1>13 DEF IInv

(* The stack ends a session: it is to be closed, then removed.              *)
LEMMA TerminatedStep ==
  ASSUME IInv, NEW s \in Sessions, HandleSessionTermination(s) PROVE IInv'
<1>1. ContextsKept
  BY SameContexts DEF HandleSessionTermination, IInv
<1>2. /\ op' \in [Threads -> Operation]
      /\ op["workqueue"] = Idle /\ op'["driver"] = op["driver"]
      /\ op'["workqueue"].at = "set" /\ op'["workqueue"].session = s /\ op'["workqueue"].allow = FALSE
      /\ op'["workqueue"].update /\ op'["workqueue"].cause = "termination"
  BY BeginStep DEF HandleSessionTermination, IInv, TypeInv, Threads
<1>3. orderly' => orderly /\ \E r \in Threads : op[r] = Idle /\ op'[r] = Idle
  BY DEF HandleSessionTermination, TakeTurns, Disorder
<1>4. TypeInv'
  BY <1>1, <1>2 DEF HandleSessionTermination, IInv, TypeInv, ContextsKept, suspension
<1>5. FlagsInv'
  BY Zenon
     DEF HandleSessionTermination, IInv, FlagsInv, TakeTurns, Disorder, suspension
<1>6. OrphanInv'
  BY <1>1, KeptHas DEF HandleSessionTermination, IInv, TypeInv, OrphanInv, Has
<1>7. ThreadInv'
  BY <1>2 DEF HandleSessionTermination, IInv, ThreadInv, Threads, Idle
<1>8. SuspendInv'
  BY <1>1, <1>2, KeptHas
     DEF HandleSessionTermination, IInv, SuspendInv, ThreadInv, Threads, Idle,
         IsOpenAllowed
<1>9. TurnsInv'
  BY <1>2, <1>3 DEF HandleSessionTermination, IInv, TurnsInv, ThreadInv, Threads, Idle
<1>10. OneContextPerSession'
  BY <1>1, <1>2, <1>3
     DEF HandleSessionTermination, IInv, TypeInv, OneContextPerSession, ContextsKept,
         TurnsInv, ThreadInv, Threads, Idle
<1>11. OpenInv'
  BY <1>1, <1>2, <1>3
     DEF HandleSessionTermination, IInv, TypeInv, OpenInv, ContextsKept, TurnsInv,
         ThreadInv, Threads, Idle, Context
<1>12. ClosedInv'
  BY <1>1, <1>2, <1>3
     DEF HandleSessionTermination, IInv, TypeInv, ClosedInv, ContextsKept, TurnsInv,
         ThreadInv, Threads, Idle
<1>13. DoorInv'
  BY <1>1, <1>2, <1>3, KeptHas
     DEF HandleSessionTermination, IInv, DoorInv, TurnsInv, ThreadInv, Threads, Idle
<1> QED
  BY <1>4, <1>5, <1>6, <1>7, <1>8, <1>9, <1>10, <1>11, <1>12, <1>13 DEF IInv

(* A session is granted: its context is closed.                             *)
LEMMA AllocatedStep ==
  ASSUME IInv, NEW s \in Sessions, AllocateRangingSession(s),
         Len(contexts) < MaxContexts PROVE IInv'
<1>1. /\ contexts' \in Seq(Context) /\ Len(contexts') <= MaxContexts
      /\ DOMAIN contexts = 1..Len(contexts) /\ DOMAIN contexts' = 1..(Len(contexts) + 1)
      /\ Len(contexts) \in Nat
      /\ \A i \in DOMAIN contexts : contexts'[i] = contexts[i]
      /\ contexts'[Len(contexts) + 1].session = s /\ ~contexts'[Len(contexts) + 1].open
      /\ stack' = [stack EXCEPT ![s] = "granted"]
  BY AppendStep, LenProperties, ContextsAssumption
     DEF AllocateRangingSession, IInv, TypeInv
<1>2. op' = op /\ op \in [Threads -> Operation]
  BY DEF AllocateRangingSession, IInv, TypeInv
<1>3. orderly' => orderly /\ \E r \in Threads : op[r] = Idle /\ op'[r] = Idle
  BY DEF AllocateRangingSession, TakeTurns, Disorder
<1>4. TypeInv'
  BY <1>1, <1>2 DEF AllocateRangingSession, IInv, TypeInv, ContextsKept, suspension
<1>5. FlagsInv'
  BY Zenon DEF AllocateRangingSession, IInv, FlagsInv, TakeTurns, Disorder, suspension
<1>6. OrphanInv'
  BY <1>1 DEF AllocateRangingSession, IInv, TypeInv, OrphanInv, Has
<1>7. ThreadInv'
  BY <1>2 DEF AllocateRangingSession, IInv, ThreadInv, Threads, Idle
<1>8. SuspendInv'
  BY <1>1, <1>2
     DEF AllocateRangingSession, IInv, SuspendInv, ThreadInv, Threads, Idle,
         IsOpenAllowed
<1>9. TurnsInv'
  BY <1>2, <1>3 DEF AllocateRangingSession, IInv, TurnsInv, ThreadInv, Threads, Idle
<1>10. OneContextPerSession'
  <2>1. orderly' => orderly /\ op["workqueue"] = Idle /\ stack[s] = "none"
    BY <1>3 DEF AllocateRangingSession, MayBegin
  <2>2. orderly' => \A i \in DOMAIN contexts :
           contexts[i].session # s /\ stack[contexts[i].session] \in {"granted", "ranging"}
    BY <2>1 DEF IInv, OneContextPerSession, Idle
  <2>3. orderly' => \A i \in DOMAIN contexts' : stack'[contexts'[i].session] \in {"granted", "ranging"}
    <3> SUFFICES ASSUME orderly', NEW i \in DOMAIN contexts'
                 PROVE  stack'[contexts'[i].session] \in {"granted", "ranging"}
      OBVIOUS
    <3>1. CASE i \in DOMAIN contexts
      <4>1. contexts[i].session \in Sessions
        BY <3>1, ContextSessions DEF IInv
      <4> QED
        BY <1>1, <2>2, <3>1, <4>1 DEF IInv, TypeInv
    <3>2. CASE i = Len(contexts) + 1
      BY <1>1, <3>2 DEF IInv, TypeInv
    <3> QED
      BY <1>1, <3>1, <3>2
  <2>4. orderly' => \A i, j \in DOMAIN contexts' :
           contexts'[i].session = contexts'[j].session => i = j
    <3>1. orderly' => \A i, j \in DOMAIN contexts :
             contexts[i].session = contexts[j].session => i = j
      BY <2>1 DEF IInv, OneContextPerSession
    <3> QED
      BY <1>1, <2>2, <3>1
  <2> QED
    BY <2>3, <2>4 DEF OneContextPerSession
<1>11. OpenInv'
  <2>1. orderly' => orderly /\ op["workqueue"] = Idle /\ stack[s] = "none"
    BY <1>3 DEF AllocateRangingSession, MayBegin
  <2>2. orderly' => \A i \in DOMAIN contexts :
           contexts[i].session # s /\ stack[contexts[i].session] \in {"granted", "ranging"}
    BY <2>1 DEF IInv, OneContextPerSession, Idle
  <2>3. orderly' => \A r \in Sessions : uwb'[r] # "none" => stack'[r] = "ranging"
    BY <2>1 DEF AllocateRangingSession, IInv, TypeInv, OpenInv
  <2>4. orderly' => \A i \in DOMAIN contexts' :
           contexts'[i].open => stack'[contexts'[i].session] = "ranging"
    <3> SUFFICES ASSUME orderly', NEW i \in DOMAIN contexts', contexts'[i].open
                 PROVE  stack'[contexts'[i].session] = "ranging"
      OBVIOUS
    <3>1. i \in DOMAIN contexts /\ contexts'[i] = contexts[i]
      BY <1>1
    <3>2. contexts[i].session \in Sessions /\ contexts[i].session # s
      BY <2>2, <3>1, ContextSessions DEF IInv
    <3> QED
      BY <1>1, <2>1, <3>1, <3>2 DEF IInv, TypeInv, OpenInv
  <2>5. orderly' /\ op'["driver"].allow =>
           \E r \in Sessions : op'["driver"].session = r /\ stack'[r] = "ranging"
    BY <1>1, <1>2, <2>1 DEF IInv, TypeInv, OpenInv
  <2> QED
    BY <2>3, <2>4, <2>5 DEF OpenInv
<1>12. ClosedInv'
  <2>1. orderly' => op'["workqueue"].at = "idle"
    BY <1>2 DEF AllocateRangingSession, MayBegin, Idle
  <2> QED
    BY <2>1 DEF ClosedInv
<1>13. DoorInv'
  <2>1. IsOpenAllowed' <=> IsOpenAllowed
    BY <1>1 DEF IsOpenAllowed
  <2> QED
    BY <1>2, <1>3, <2>1 DEF AllocateRangingSession, IInv, DoorInv
<1> QED
  BY <1>4, <1>5, <1>6, <1>7, <1>8, <1>9, <1>10, <1>11, <1>12, <1>13 DEF IInv

(* There is no memory for a context: the session has none.                  *)
LEMMA NotAllocatedStep ==
  ASSUME IInv, NEW s \in Sessions, AllocateRangingSession(s),
         ~(Len(contexts) < MaxContexts) PROVE IInv'
<1>1. ContextsKept /\ stack' = [stack EXCEPT ![s] = "denied"]
  BY SameContexts DEF AllocateRangingSession, IInv
<1>2. op' = op /\ op \in [Threads -> Operation]
  BY DEF AllocateRangingSession, IInv, TypeInv
<1>3. orderly' => orderly /\ \E r \in Threads : op[r] = Idle /\ op'[r] = Idle
  BY DEF AllocateRangingSession, TakeTurns, Disorder
<1>4. TypeInv'
  BY <1>1, <1>2 DEF AllocateRangingSession, IInv, TypeInv, ContextsKept, suspension
<1>5. FlagsInv'
  BY Zenon DEF AllocateRangingSession, IInv, FlagsInv, TakeTurns, Disorder, suspension
<1>6. OrphanInv'
  BY <1>1, KeptHas DEF AllocateRangingSession, IInv, TypeInv, OrphanInv, Has
<1>7. ThreadInv'
  BY <1>2 DEF AllocateRangingSession, IInv, ThreadInv, Threads, Idle
<1>8. SuspendInv'
  BY <1>1, <1>2, KeptHas
     DEF AllocateRangingSession, IInv, SuspendInv, ThreadInv, Threads, Idle,
         IsOpenAllowed
<1>9. TurnsInv'
  BY <1>2, <1>3 DEF AllocateRangingSession, IInv, TurnsInv, ThreadInv, Threads, Idle
<1>10. OneContextPerSession'
  <2>1. orderly' => orderly /\ op["workqueue"] = Idle /\ stack[s] = "none"
    BY <1>3 DEF AllocateRangingSession, MayBegin
  <2>2. orderly' => \A i \in DOMAIN contexts :
           contexts[i].session # s /\ stack[contexts[i].session] \in {"granted", "ranging"}
    BY <2>1 DEF IInv, OneContextPerSession, Idle
  <2>3. \A i \in DOMAIN contexts : contexts[i].session \in Sessions
    BY ContextSessions DEF IInv
  <2> QED
    BY <1>1, <2>1, <2>2, <2>3 DEF IInv, TypeInv, OneContextPerSession, ContextsKept
<1>11. OpenInv'
  <2>1. orderly' => orderly /\ op["workqueue"] = Idle /\ stack[s] = "none"
    BY <1>3 DEF AllocateRangingSession, MayBegin
  <2>2. orderly' => \A i \in DOMAIN contexts :
           contexts[i].session # s /\ stack[contexts[i].session] \in {"granted", "ranging"}
    BY <2>1 DEF IInv, OneContextPerSession, Idle
  <2>3. orderly' => \A r \in Sessions : uwb'[r] # "none" => stack'[r] = "ranging"
    BY <2>1 DEF AllocateRangingSession, IInv, TypeInv, OpenInv
  <2>4. \A i \in DOMAIN contexts : contexts[i].session \in Sessions
    BY ContextSessions DEF IInv
  <2>5. orderly' => \A i \in DOMAIN contexts' :
           contexts'[i].open => stack'[contexts'[i].session] = "ranging"
    BY <1>1, <2>1, <2>2, <2>4 DEF IInv, TypeInv, OpenInv, ContextsKept
  <2>6. orderly' /\ op'["driver"].allow =>
           \E r \in Sessions : op'["driver"].session = r /\ stack'[r] = "ranging"
    BY <1>1, <1>2, <2>1 DEF IInv, TypeInv, OpenInv
  <2> QED
    BY <2>3, <2>5, <2>6 DEF OpenInv
<1>12. ClosedInv'
  BY <1>1, <1>2, <1>3
     DEF AllocateRangingSession, IInv, TypeInv, ClosedInv, ContextsKept, TurnsInv,
         ThreadInv, Threads, Idle
<1>13. DoorInv'
  BY <1>1, <1>2, <1>3, KeptHas
     DEF AllocateRangingSession, IInv, DoorInv, TurnsInv, ThreadInv, Threads, Idle
<1> QED
  BY <1>4, <1>5, <1>6, <1>7, <1>8, <1>9, <1>10, <1>11, <1>12, <1>13 DEF IInv

(* Ranging is configured for a session that has a context.                  *)
LEMMA AddedStep ==
  ASSUME IInv, NEW s \in Sessions, AddRangingSession(s), UNCHANGED op PROVE IInv'
<1>1. ContextsKept /\ uwb' = [uwb EXCEPT ![s] = "idle"] /\ stack' = [stack EXCEPT ![s] = "ranging"]
      /\ Find(s) # 0 /\ stack[s] = "granted"
  <2>1. op \in [Threads -> Operation] /\ "workqueue" \in Threads
    BY DEF IInv, TypeInv, Threads
  <2>2. ~Begin("workqueue", "remove", s, FALSE, "start")
    <3> SUFFICES ASSUME Begin("workqueue", "remove", s, FALSE, "start") PROVE FALSE
      OBVIOUS
    <3>1. op["workqueue"] = Idle /\ op'["workqueue"].at = "remove"
      BY <2>1, BeginStep
    <3> QED
      BY <3>1 DEF Idle
  <2> QED
    BY <2>2, SameContexts DEF AddRangingSession, IInv
<1>2. op' = op /\ op \in [Threads -> Operation]
  BY DEF AddRangingSession, IInv, TypeInv
<1>3. orderly' => orderly /\ \E r \in Threads : op[r] = Idle /\ op'[r] = Idle
  BY DEF AddRangingSession, TakeTurns, Disorder
<1>4. TypeInv'
  BY <1>1, <1>2 DEF AddRangingSession, IInv, TypeInv, ContextsKept, suspension
<1>5. FlagsInv'
  BY Zenon DEF AddRangingSession, IInv, FlagsInv, TakeTurns, Disorder, suspension
<1>6. OrphanInv'
  <2>1. Has(s)
    BY <1>1, FindFirst DEF IInv, TypeInv, Has
  <2> QED
    BY <1>1, <2>1, KeptHas DEF IInv, TypeInv, OrphanInv
<1>7. ThreadInv'
  BY <1>2 DEF AddRangingSession, IInv, ThreadInv, Threads, Idle
<1>8. SuspendInv'
  BY <1>1, <1>2, KeptHas
     DEF AddRangingSession, IInv, SuspendInv, ThreadInv, Threads, Idle, IsOpenAllowed
<1>9. TurnsInv'
  BY <1>2, <1>3 DEF AddRangingSession, IInv, TurnsInv, ThreadInv, Threads, Idle
<1>10. OneContextPerSession'
  BY <1>1, <1>2, <1>3
     DEF AddRangingSession, IInv, TypeInv, OneContextPerSession, ContextsKept,
         TurnsInv, ThreadInv, Threads, Idle
<1>11. OpenInv'
  BY <1>1, <1>2, <1>3
     DEF AddRangingSession, IInv, TypeInv, OpenInv, ContextsKept, TurnsInv, ThreadInv,
         Threads, Idle, Context
<1>12. ClosedInv'
  BY <1>1, <1>2, <1>3
     DEF AddRangingSession, IInv, TypeInv, ClosedInv, ContextsKept, TurnsInv,
         ThreadInv, Threads, Idle
<1>13. DoorInv'
  BY <1>1, <1>2, <1>3, KeptHas
     DEF AddRangingSession, IInv, DoorInv, TurnsInv, ThreadInv, Threads, Idle
<1> QED
  BY <1>4, <1>5, <1>6, <1>7, <1>8, <1>9, <1>10, <1>11, <1>12, <1>13 DEF IInv

(* Ranging could not be configured: the context is to be removed.           *)
LEMMA NotAddedStep ==
  ASSUME IInv, NEW s \in Sessions, AddRangingSession(s), op' # op PROVE IInv'
<1>1. ContextsKept /\ uwb' = uwb /\ stack' = [stack EXCEPT ![s] = "denied"] /\ stack[s] = "granted"
  BY SameContexts DEF AddRangingSession, IInv
<1>2. /\ op' \in [Threads -> Operation]
      /\ op["workqueue"] = Idle /\ op'["driver"] = op["driver"]
      /\ op'["workqueue"].at = "remove" /\ op'["workqueue"].session = s /\ op'["workqueue"].allow = FALSE
      /\ op'["workqueue"].update /\ op'["workqueue"].cause = "start"
  BY BeginStep DEF AddRangingSession, IInv, TypeInv, Threads
<1>3. orderly' => orderly /\ \E r \in Threads : op[r] = Idle /\ op'[r] = Idle
  BY DEF AddRangingSession, TakeTurns, Disorder
<1>4. TypeInv'
  BY <1>1, <1>2 DEF AddRangingSession, IInv, TypeInv, ContextsKept, suspension
<1>5. FlagsInv'
  BY Zenon DEF AddRangingSession, IInv, FlagsInv, TakeTurns, Disorder, suspension
<1>6. OrphanInv'
  BY <1>1, KeptHas DEF AddRangingSession, IInv, TypeInv, OrphanInv, Has
<1>7. ThreadInv'
  BY <1>2 DEF AddRangingSession, IInv, ThreadInv, Threads, Idle
<1>8. SuspendInv'
  BY <1>1, <1>2, KeptHas
     DEF AddRangingSession, IInv, SuspendInv, ThreadInv, Threads, Idle, IsOpenAllowed
<1>9. TurnsInv'
  BY <1>2, <1>3 DEF AddRangingSession, IInv, TurnsInv, ThreadInv, Threads, Idle
<1>10. OneContextPerSession'
  BY <1>1, <1>2, <1>3
     DEF AddRangingSession, IInv, TypeInv, OneContextPerSession, ContextsKept,
         TurnsInv, ThreadInv, Threads, Idle
<1>11. OpenInv'
  BY <1>1, <1>2, <1>3
     DEF AddRangingSession, IInv, TypeInv, OpenInv, ContextsKept, TurnsInv, ThreadInv,
         Threads, Idle, Context
<1>12. ClosedInv'
  <2>1. orderly' => \A i \in DOMAIN contexts : contexts[i].session = s => ~contexts[i].open
    BY <1>1, <1>3 DEF IInv, OpenInv
  <2> QED
    BY <1>1, <1>2, <2>1 DEF ClosedInv, ContextsKept
<1>13. DoorInv'
  BY <1>1, <1>2, <1>3, KeptHas
     DEF AddRangingSession, IInv, DoorInv, TurnsInv, ThreadInv, Threads, Idle
<1> QED
  BY <1>4, <1>5, <1>6, <1>7, <1>8, <1>9, <1>10, <1>11, <1>12, <1>13 DEF IInv

(* A context is removed: those that stay are of other sessions.             *)
LEMMA RemovedStep ==
  ASSUME IInv, Find(op["workqueue"].session) # 0,
         RemoveRangingSession, contexts' = RemoveAt(contexts, Find(op["workqueue"].session)),
         uwb' = [uwb EXCEPT ![op["workqueue"].session] = "none"] PROVE IInv'
<1>1. /\ contexts' \in Seq(Context) /\ Len(contexts') = Len(contexts) - 1 /\ Len(contexts) \in Nat
      /\ DOMAIN contexts = 1..Len(contexts) /\ DOMAIN contexts' = 1..(Len(contexts) - 1)
      /\ Find(op["workqueue"].session) \in DOMAIN contexts
      /\ contexts[Find(op["workqueue"].session)].session = op["workqueue"].session
      /\ \A i \in DOMAIN contexts' :
           contexts'[i] = IF i < Find(op["workqueue"].session) THEN contexts[i] ELSE contexts[i + 1]
      /\ \A i \in DOMAIN contexts' : \E j \in DOMAIN contexts :
           j # Find(op["workqueue"].session) /\ contexts'[i] = contexts[j]
      /\ \A j \in DOMAIN contexts : j # Find(op["workqueue"].session) =>
           \E i \in DOMAIN contexts' : contexts'[i] = contexts[j]
  BY RemoveStep, LenProperties DEF IInv, TypeInv
<1>2. /\ op' \in [Threads -> Operation] /\ op'["driver"] = op["driver"]
      /\ op["workqueue"].at = "remove" /\ op'["workqueue"] = Idle
  BY DEF RemoveRangingSession, IInv, TypeInv, Threads, Operation, Idle
<1>3. orderly' => orderly /\ \E r \in Threads : op[r] = Idle /\ op'[r] = Idle
  BY DEF RemoveRangingSession, TakeTurns, Disorder
<1>4. TypeInv'
  <2>1. /\ stack' \in [Sessions -> {"none", "granted", "ranging", "denied"}]
        /\ uwb' \in [Sessions -> {"none", "idle", "ranging", "suspending", "suspended"}]
    BY DEF RemoveRangingSession, IInv, TypeInv
  <2>2. Len(contexts') <= MaxContexts
    BY <1>1, ContextsAssumption DEF IInv, TypeInv
  <2> QED
    BY <1>1, <1>2, <2>1, <2>2 DEF RemoveRangingSession, IInv, TypeInv, suspension
<1>5. FlagsInv'
  BY Zenon DEF RemoveRangingSession, IInv, FlagsInv, TakeTurns, Disorder, suspension
<1>6. OrphanInv'
  <2> SUFFICES ASSUME NEW s \in Sessions, uwb'[s] # "none" PROVE Has(s)'
    BY DEF OrphanInv
  <2>1. s # op["workqueue"].session /\ uwb[s] # "none"
    BY DEF IInv, TypeInv
  <2>2. PICK j \in DOMAIN contexts : contexts[j].session = s
    BY <2>1 DEF IInv, OrphanInv, Has
  <2>3. PICK i \in DOMAIN contexts' : contexts'[i] = contexts[j]
    BY <1>1, <2>1, <2>2
  <2> QED
    BY <2>2, <2>3 DEF Has
<1>7. ThreadInv'
  BY <1>2 DEF RemoveRangingSession, IInv, ThreadInv, Threads, Idle
<1>8. SuspendInv'
  BY <1>1, <1>2
     DEF RemoveRangingSession, IInv, SuspendInv, ThreadInv, Threads, Idle,
         IsOpenAllowed
<1>9. TurnsInv'
  BY <1>2, <1>3 DEF RemoveRangingSession, IInv, TurnsInv, ThreadInv, Threads, Idle
<1>10. OneContextPerSession'
  <2>1. orderly' => \A i, j \in DOMAIN contexts :
           contexts[i].session = contexts[j].session => i = j
    BY <1>3 DEF IInv, OneContextPerSession
  <2>2. \A i \in DOMAIN contexts : contexts[i].session \in Sessions
    BY ContextSessions DEF IInv
  <2>3. \A s \in Sessions : s # op["workqueue"].session => stack'[s] = stack[s]
    BY DEF RemoveRangingSession, IInv, TypeInv
  <2>4. Find(op["workqueue"].session) \in DOMAIN contexts /\ contexts[Find(op["workqueue"].session)].session = op["workqueue"].session
    BY <1>1
  <2>5. orderly' => \A i \in DOMAIN contexts : i # Find(op["workqueue"].session) => contexts[i].session # op["workqueue"].session
    BY <2>1, <2>4
  <2>6. orderly' => \A i \in DOMAIN contexts' : stack'[contexts'[i].session] \in {"granted", "ranging"}
    <3> SUFFICES ASSUME orderly', NEW i \in DOMAIN contexts'
                 PROVE  stack'[contexts'[i].session] \in {"granted", "ranging"}
      OBVIOUS
    <3>1. PICK j \in DOMAIN contexts : j # Find(op["workqueue"].session) /\ contexts'[i] = contexts[j]
      BY <1>1
    <3>2. contexts[j].session # op["workqueue"].session
      BY <2>5, <3>1
    <3>3. stack[contexts[j].session] \in {"granted", "ranging"}
      BY <1>3, <3>2 DEF IInv, OneContextPerSession
    <3> QED
      BY <2>2, <2>3, <3>1, <3>2, <3>3
  <2>7. orderly' => \A i, j \in DOMAIN contexts' :
           contexts'[i].session = contexts'[j].session => i = j
    <3> DEFINE k == Find(op["workqueue"].session)
               From(i) == IF i < k THEN i ELSE i + 1
    <3>1. /\ Len(contexts) \in Nat /\ k \in 1..Len(contexts)
          /\ DOMAIN contexts = 1..Len(contexts) /\ DOMAIN contexts' = 1..(Len(contexts) - 1)
          /\ \A i \in DOMAIN contexts' : contexts'[i] = IF i < k THEN contexts[i] ELSE contexts[i + 1]
      BY <1>1
    <3> HIDE DEF k
    <3>2. \A i \in DOMAIN contexts' : From(i) \in DOMAIN contexts
      BY <3>1
    <3>3. \A i \in DOMAIN contexts' : contexts'[i] = contexts[From(i)]
      BY <3>1
    <3>4. \A i, j \in DOMAIN contexts' : From(i) = From(j) => i = j
      BY <3>1
    <3> HIDE DEF From
    <3> QED
      BY <2>1, <3>2, <3>3, <3>4
  <2> QED
    BY <2>6, <2>7 DEF OneContextPerSession
<1>11. OpenInv'
  <2>1. orderly' => \A i, j \in DOMAIN contexts :
           contexts[i].session = contexts[j].session => i = j
    BY <1>3 DEF IInv, OneContextPerSession
  <2>2. \A i \in DOMAIN contexts : contexts[i].session \in Sessions
    BY ContextSessions DEF IInv
  <2>3. \A s \in Sessions : s # op["workqueue"].session => stack'[s] = stack[s]
    BY DEF RemoveRangingSession, IInv, TypeInv
  <2>4. Find(op["workqueue"].session) \in DOMAIN contexts /\ contexts[Find(op["workqueue"].session)].session = op["workqueue"].session
    BY <1>1
  <2>5. orderly' => \A i \in DOMAIN contexts : i # Find(op["workqueue"].session) => contexts[i].session # op["workqueue"].session
    BY <2>1, <2>4
  <2>6. orderly' => \A s \in Sessions : uwb'[s] # "none" => stack'[s] = "ranging"
    BY <1>3, <2>3 DEF IInv, TypeInv, OpenInv
  <2>7. orderly' => \A i \in DOMAIN contexts' :
           contexts'[i].open => stack'[contexts'[i].session] = "ranging"
    <3> SUFFICES ASSUME orderly', NEW i \in DOMAIN contexts', contexts'[i].open
                 PROVE  stack'[contexts'[i].session] = "ranging"
      OBVIOUS
    <3>1. PICK j \in DOMAIN contexts : j # Find(op["workqueue"].session) /\ contexts'[i] = contexts[j]
      BY <1>1
    <3>2. contexts[j].session # op["workqueue"].session
      BY <2>5, <3>1
    <3>3. stack[contexts[j].session] = "ranging"
      BY <1>3, <3>1 DEF IInv, OpenInv
    <3> QED
      BY <2>2, <2>3, <3>1, <3>2, <3>3
  <2>8. orderly' => ~op'["driver"].allow
    BY <1>2, <1>3 DEF IInv, TurnsInv, Threads, Idle
  <2> QED
    BY <2>6, <2>7, <2>8 DEF OpenInv
<1>12. ClosedInv'
  BY <1>1, <1>2, <1>3
     DEF RemoveRangingSession, IInv, TypeInv, ClosedInv, ContextsKept, TurnsInv,
         ThreadInv, Threads, Idle
<1>13. DoorInv'
  <2>1. orderly' => (IsOpenAllowed' <=> IsOpenAllowed)
    <3> SUFFICES ASSUME orderly' PROVE IsOpenAllowed' <=> IsOpenAllowed
      OBVIOUS
    <3>1. ~contexts[Find(op["workqueue"].session)].open
      BY <1>1, <1>2, <1>3 DEF IInv, ClosedInv
    <3>2. ASSUME IsOpenAllowed PROVE IsOpenAllowed'
      <4>1. PICK j \in DOMAIN contexts : contexts[j].open
        BY <3>2 DEF IsOpenAllowed
      <4>2. PICK i \in DOMAIN contexts' : contexts'[i] = contexts[j]
        BY <1>1, <3>1, <4>1
      <4> QED
        BY <4>1, <4>2 DEF IsOpenAllowed
    <3>3. ASSUME IsOpenAllowed' PROVE IsOpenAllowed
      <4>1. PICK i \in DOMAIN contexts' : contexts'[i].open
        BY <3>3 DEF IsOpenAllowed
      <4>2. PICK j \in DOMAIN contexts : contexts'[i] = contexts[j]
        BY <1>1
      <4> QED
        BY <4>1, <4>2 DEF IsOpenAllowed
    <3> QED
      BY <3>2, <3>3
  <2> QED
    BY <1>2, <1>3, <2>1
       DEF RemoveRangingSession, IInv, DoorInv, TurnsInv, ThreadInv, Threads, Idle
<1> QED
  BY <1>4, <1>5, <1>6, <1>7, <1>8, <1>9, <1>10, <1>11, <1>12, <1>13 DEF IInv

(* No context is removed: there is none, or the driver failed.              *)
LEMMA NotRemovedStep ==
  ASSUME IInv, RemoveRangingSession, UNCHANGED contexts,
         orderly' => Find(op["workqueue"].session) = 0 /\ uwb' = [uwb EXCEPT ![op["workqueue"].session] = "none"] PROVE IInv'
<1>1. ContextsKept
  BY SameContexts DEF IInv
<1>2. /\ op' \in [Threads -> Operation] /\ op'["driver"] = op["driver"]
      /\ op["workqueue"].at = "remove" /\ op'["workqueue"] = Idle
  BY DEF RemoveRangingSession, IInv, TypeInv, Threads, Operation, Idle
<1>3. orderly' => orderly /\ \E r \in Threads : op[r] = Idle /\ op'[r] = Idle
  BY DEF RemoveRangingSession, TakeTurns, Disorder
<1>4. TypeInv'
  BY <1>1, <1>2 DEF RemoveRangingSession, IInv, TypeInv, ContextsKept, suspension
<1>5. FlagsInv'
  BY Zenon DEF RemoveRangingSession, IInv, FlagsInv, TakeTurns, Disorder, suspension
<1>6. OrphanInv'
  BY <1>1, KeptHas DEF RemoveRangingSession, IInv, TypeInv, OrphanInv, Has
<1>7. ThreadInv'
  BY <1>2 DEF RemoveRangingSession, IInv, ThreadInv, Threads, Idle
<1>8. SuspendInv'
  BY <1>1, <1>2, KeptHas
     DEF RemoveRangingSession, IInv, SuspendInv, ThreadInv, Threads, Idle,
         IsOpenAllowed
<1>9. TurnsInv'
  BY <1>2, <1>3 DEF RemoveRangingSession, IInv, TurnsInv, ThreadInv, Threads, Idle
<1>10. OneContextPerSession'
  <2>1. orderly' => \A i \in DOMAIN contexts : contexts[i].session # op["workqueue"].session
    BY <1>1, FindFirst DEF IInv, TypeInv
  <2>2. \A i \in DOMAIN contexts : contexts[i].session \in Sessions
    BY ContextSessions DEF IInv
  <2>3. \A s \in Sessions : s # op["workqueue"].session => stack'[s] = stack[s]
    BY DEF RemoveRangingSession, IInv, TypeInv
  <2> QED
    BY <1>1, <1>2, <1>3, <2>1, <2>2, <2>3 DEF IInv, OneContextPerSession, ContextsKept
<1>11. OpenInv'
  <2>1. orderly' => \A i \in DOMAIN contexts : contexts[i].session # op["workqueue"].session
    BY <1>1, FindFirst DEF IInv, TypeInv
  <2>2. \A i \in DOMAIN contexts : contexts[i].session \in Sessions
    BY ContextSessions DEF IInv
  <2>3. \A s \in Sessions : s # op["workqueue"].session => stack'[s] = stack[s]
    BY DEF RemoveRangingSession, IInv, TypeInv
  <2>4. orderly' => \A s \in Sessions : uwb'[s] # "none" => stack'[s] = "ranging"
    BY <1>3, <2>3 DEF IInv, TypeInv, OpenInv
  <2>5. orderly' => \A i \in DOMAIN contexts' :
           contexts'[i].open => stack'[contexts'[i].session] = "ranging"
    BY <1>1, <1>3, <2>1, <2>2, <2>3 DEF IInv, OpenInv, ContextsKept
  <2>6. orderly' => ~op'["driver"].allow
    BY <1>2, <1>3 DEF IInv, TurnsInv, Threads, Idle
  <2> QED
    BY <2>4, <2>5, <2>6 DEF OpenInv
<1>12. ClosedInv'
  BY <1>1, <1>2, <1>3
     DEF RemoveRangingSession, IInv, TypeInv, ClosedInv, ContextsKept, TurnsInv,
         ThreadInv, Threads, Idle
<1>13. DoorInv'
  BY <1>1, <1>2, <1>3, KeptHas
     DEF RemoveRangingSession, IInv, DoorInv, TurnsInv, ThreadInv, Threads, Idle
<1> QED
  BY <1>4, <1>5, <1>6, <1>7, <1>8, <1>9, <1>10, <1>11, <1>12, <1>13 DEF IInv

(* The door is unlocked, for a session that is open.                        *)
LEMMA UnlockedStep ==
  ASSUME IInv, NEW t \in Threads, UnlockAction(t) PROVE IInv'
<1>1. ContextsKept
  BY SameContexts DEF UnlockAction, IInv
<1>2. /\ op' \in [Threads -> Operation] /\ op[t].at = "unlock" /\ op[t] # Idle
      /\ t # "workqueue" => op'[t] = Idle
      /\ t = "workqueue" =>
           /\ op'[t].at = "remove" /\ op'[t].session = op[t].session
           /\ op'[t].allow = op[t].allow /\ op'[t].update = op[t].update
           /\ op'[t].cause = op[t].cause
      /\ \A r \in Threads : r # t => op'[r] = op[r]
  <2>1. Return(t) /\ op[t].at = "unlock" /\ op \in [Threads -> Operation]
    BY DEF UnlockAction, IInv, TypeInv
  <2> QED
    BY <2>1, ReturnStep DEF Idle
<1>3. orderly' => orderly /\ \E r \in Threads : op[r] = Idle /\ op'[r] = Idle
  BY DEF UnlockAction, TakeTurns, Disorder
<1>4. TypeInv'
  BY <1>1, <1>2 DEF UnlockAction, IInv, TypeInv, ContextsKept, suspension
<1>5. FlagsInv'
  BY OptionsAssumption, Zenon DEF UnlockAction, IInv, FlagsInv, TakeTurns
<1>6. OrphanInv'
  BY <1>1, KeptHas DEF UnlockAction, IInv, TypeInv, OrphanInv, Has
<1>7. ThreadInv'
  BY <1>2 DEF UnlockAction, IInv, ThreadInv, Threads, Idle
<1>8. SuspendInv'
  BY <1>1, <1>2, KeptHas
     DEF UnlockAction, IInv, SuspendInv, ThreadInv, Threads, Idle, IsOpenAllowed
<1>9. TurnsInv'
  BY <1>2, <1>3 DEF UnlockAction, IInv, TurnsInv, ThreadInv, Threads, Idle
<1>10. OneContextPerSession'
  BY <1>1, <1>2, <1>3
     DEF UnlockAction, IInv, TypeInv, OneContextPerSession, ContextsKept, TurnsInv,
         ThreadInv, Threads, Idle
<1>11. OpenInv'
  BY <1>1, <1>2, <1>3
     DEF UnlockAction, IInv, TypeInv, OpenInv, ContextsKept, TurnsInv, ThreadInv,
         Threads, Idle, Context
<1>12. ClosedInv'
  BY <1>1, <1>2, <1>3
     DEF UnlockAction, IInv, TypeInv, ClosedInv, ContextsKept, TurnsInv, ThreadInv,
         Threads, Idle
<1>13. DoorInv'
  BY <1>1, <1>2, <1>3, KeptHas
     DEF UnlockAction, IInv, DoorInv, TurnsInv, ThreadInv, Threads, Idle
<1> QED
  BY <1>4, <1>5, <1>6, <1>7, <1>8, <1>9, <1>10, <1>11, <1>12, <1>13 DEF IInv

(* The door is locked: no session is open.                                  *)
LEMMA LockedStep ==
  ASSUME IInv, NEW t \in Threads, LockAction(t) PROVE IInv'
<1>1. ContextsKept
  BY SameContexts DEF LockAction, IInv
<1>2. /\ op' \in [Threads -> Operation] /\ op[t].at = "lock" /\ op[t] # Idle
      /\ t # "workqueue" => op'[t] = Idle
      /\ t = "workqueue" =>
           /\ op'[t].at = "remove" /\ op'[t].session = op[t].session
           /\ op'[t].allow = op[t].allow /\ op'[t].update = op[t].update
           /\ op'[t].cause = op[t].cause
      /\ \A r \in Threads : r # t => op'[r] = op[r]
  <2>1. Return(t) /\ op[t].at = "lock" /\ op \in [Threads -> Operation]
    BY DEF LockAction, IInv, TypeInv
  <2> QED
    BY <2>1, ReturnStep DEF Idle
<1>3. orderly' => orderly /\ \E r \in Threads : op[r] = Idle /\ op'[r] = Idle
  BY DEF LockAction, TakeTurns, Disorder
<1>4. TypeInv'
  BY <1>1, <1>2 DEF LockAction, IInv, TypeInv, ContextsKept, suspension
<1>5. FlagsInv'
  BY Zenon DEF LockAction, IInv, FlagsInv, TakeTurns, Disorder, suspension
<1>6. OrphanInv'
  BY <1>1, KeptHas DEF LockAction, IInv, TypeInv, OrphanInv, Has
<1>7. ThreadInv'
  BY <1>2 DEF LockAction, IInv, ThreadInv, Threads, Idle
<1>8. SuspendInv'
  BY <1>1, <1>2, KeptHas
     DEF LockAction, IInv, SuspendInv, ThreadInv, Threads, Idle, IsOpenAllowed
<1>9. TurnsInv'
  BY <1>2, <1>3 DEF LockAction, IInv, TurnsInv, ThreadInv, Threads, Idle
<1>10. OneContextPerSession'
  BY <1>1, <1>2, <1>3
     DEF LockAction, IInv, TypeInv, OneContextPerSession, ContextsKept, TurnsInv,
         ThreadInv, Threads, Idle
<1>11. OpenInv'
  BY <1>1, <1>2, <1>3
     DEF LockAction, IInv, TypeInv, OpenInv, ContextsKept, TurnsInv, ThreadInv,
         Threads, Idle, Context
<1>12. ClosedInv'
  BY <1>1, <1>2, <1>3
     DEF LockAction, IInv, TypeInv, ClosedInv, ContextsKept, TurnsInv, ThreadInv,
         Threads, Idle
<1>13. DoorInv'
  BY <1>1, <1>2, <1>3, KeptHas
     DEF LockAction, IInv, DoorInv, TurnsInv, ThreadInv, Threads, Idle
<1> QED
  BY <1>4, <1>5, <1>6, <1>7, <1>8, <1>9, <1>10, <1>11, <1>12, <1>13 DEF IInv

(* Another session is open, or the reader is not to be updated.             *)
LEMMA AggregateReturnsStep ==
  ASSUME IInv, NEW t \in Threads, Aggregate(t),
         ~(op[t].update /\ ~IsOpenAllowed) PROVE IInv'
<1>1. ContextsKept
  BY SameContexts DEF Aggregate, IInv
<1>2. /\ op' \in [Threads -> Operation] /\ op[t].at = "aggregate" /\ op[t] # Idle
      /\ t # "workqueue" => op'[t] = Idle
      /\ t = "workqueue" =>
           /\ op'[t].at = "remove" /\ op'[t].session = op[t].session
           /\ op'[t].allow = op[t].allow /\ op'[t].update = op[t].update
           /\ op'[t].cause = op[t].cause
      /\ \A r \in Threads : r # t => op'[r] = op[r]
  <2>1. Return(t) /\ op[t].at = "aggregate" /\ op \in [Threads -> Operation]
    BY DEF Aggregate, IInv, TypeInv
  <2> QED
    BY <2>1, ReturnStep DEF Idle
<1>3. orderly' => orderly /\ \E r \in Threads : op[r] = Idle /\ op'[r] = Idle
  BY DEF Aggregate, TakeTurns, Disorder
<1>4. TypeInv'
  BY <1>1, <1>2 DEF Aggregate, IInv, TypeInv, ContextsKept, suspension
<1>5. FlagsInv'
  BY Zenon DEF Aggregate, IInv, FlagsInv, TakeTurns, Disorder, suspension
<1>6. OrphanInv'
  BY <1>1, KeptHas DEF Aggregate, IInv, TypeInv, OrphanInv, Has
<1>7. ThreadInv'
  BY <1>2 DEF Aggregate, IInv, ThreadInv, Threads, Idle
<1>8. SuspendInv'
  BY <1>1, <1>2, KeptHas
     DEF Aggregate, IInv, SuspendInv, ThreadInv, Threads, Idle, IsOpenAllowed
<1>9. TurnsInv'
  BY <1>2, <1>3 DEF Aggregate, IInv, TurnsInv, ThreadInv, Threads, Idle
<1>10. OneContextPerSession'
  BY <1>1, <1>2, <1>3
     DEF Aggregate, IInv, TypeInv, OneContextPerSession, ContextsKept, TurnsInv,
         ThreadInv, Threads, Idle
<1>11. OpenInv'
  BY <1>1, <1>2, <1>3
     DEF Aggregate, IInv, TypeInv, OpenInv, ContextsKept, TurnsInv, ThreadInv,
         Threads, Idle, Context
<1>12. ClosedInv'
  BY <1>1, <1>2, <1>3
     DEF Aggregate, IInv, TypeInv, ClosedInv, ContextsKept, TurnsInv, ThreadInv,
         Threads, Idle
<1>13. DoorInv'
  BY <1>1, <1>2, <1>3, KeptHas
     DEF Aggregate, IInv, DoorInv, TurnsInv, ThreadInv, Threads, Idle
<1> QED
  BY <1>4, <1>5, <1>6, <1>7, <1>8, <1>9, <1>10, <1>11, <1>12, <1>13 DEF IInv

(* The last open session was closed: the door is to be locked.              *)
LEMMA AggregateLocksStep ==
  ASSUME IInv, NEW t \in Threads, Aggregate(t), op[t].update,
         ~IsOpenAllowed PROVE IInv'
<1>1. ContextsKept
  BY SameContexts DEF Aggregate, IInv
<1>2. /\ op' \in [Threads -> Operation] /\ op[t].at = "aggregate" /\ op[t] # Idle
      /\ op'[t].at = "lock" /\ op'[t].session = op[t].session
      /\ op'[t].allow = op[t].allow /\ op'[t].update = op[t].update /\ op'[t].cause = op[t].cause
      /\ \A r \in Threads : r # t => op'[r] = op[r]
  <2>1. GoTo(t, "lock") /\ op[t].at = "aggregate" /\ op \in [Threads -> Operation]
    BY DEF Aggregate, IInv, TypeInv
  <2>2. op[t] # Idle
    BY <2>1 DEF Idle
  <2>3. /\ op' \in [Threads -> Operation] /\ op'[t].at = "lock"
        /\ op'[t].session = op[t].session /\ op'[t].allow = op[t].allow
        /\ op'[t].update = op[t].update /\ op'[t].cause = op[t].cause
        /\ \A r \in Threads : r # t => op'[r] = op[r]
    BY <2>1, GoToStep
  <2> QED
    BY <2>1, <2>2, <2>3
<1>3. orderly' => orderly /\ \E r \in Threads : op[r] = Idle /\ op'[r] = Idle
  BY DEF Aggregate, TakeTurns, Disorder
<1>4. TypeInv'
  BY <1>1, <1>2 DEF Aggregate, IInv, TypeInv, ContextsKept, suspension
<1>5. FlagsInv'
  BY Zenon DEF Aggregate, IInv, FlagsInv, TakeTurns, Disorder, suspension
<1>6. OrphanInv'
  BY <1>1, KeptHas DEF Aggregate, IInv, TypeInv, OrphanInv, Has
<1>7. ThreadInv'
  BY <1>2 DEF Aggregate, IInv, ThreadInv, Threads, Idle
<1>8. SuspendInv'
  BY <1>1, <1>2, KeptHas
     DEF Aggregate, IInv, SuspendInv, ThreadInv, Threads, Idle, IsOpenAllowed
<1>9. TurnsInv'
  BY <1>2, <1>3 DEF Aggregate, IInv, TurnsInv, ThreadInv, Threads, Idle
<1>10. OneContextPerSession'
  BY <1>1, <1>2, <1>3
     DEF Aggregate, IInv, TypeInv, OneContextPerSession, ContextsKept, TurnsInv,
         ThreadInv, Threads, Idle
<1>11. OpenInv'
  BY <1>1, <1>2, <1>3
     DEF Aggregate, IInv, TypeInv, OpenInv, ContextsKept, TurnsInv, ThreadInv,
         Threads, Idle, Context
<1>12. ClosedInv'
  BY <1>1, <1>2, <1>3
     DEF Aggregate, IInv, TypeInv, ClosedInv, ContextsKept, TurnsInv, ThreadInv,
         Threads, Idle
<1>13. DoorInv'
  BY <1>1, <1>2, <1>3, KeptHas
     DEF Aggregate, IInv, DoorInv, TurnsInv, ThreadInv, Threads, Idle
<1> QED
  BY <1>4, <1>5, <1>6, <1>7, <1>8, <1>9, <1>10, <1>11, <1>12, <1>13 DEF IInv

(* The session is gone, or open or closed already.                          *)
LEMMA NothingToSetStep ==
  ASSUME IInv, NEW t \in Threads, SetOpenAllowed(t),
         Find(op[t].session) = 0 \/ contexts[Find(op[t].session)].open = op[t].allow PROVE IInv'
<1>1. ContextsKept
  BY SameContexts DEF SetOpenAllowed, IInv
<1>2. /\ op' \in [Threads -> Operation] /\ op[t].at = "set" /\ op[t] # Idle
      /\ t # "workqueue" => op'[t] = Idle
      /\ t = "workqueue" =>
           /\ op'[t].at = "remove" /\ op'[t].session = op[t].session
           /\ op'[t].allow = op[t].allow /\ op'[t].update = op[t].update
           /\ op'[t].cause = op[t].cause
      /\ \A r \in Threads : r # t => op'[r] = op[r]
  <2>1. Return(t) /\ op[t].at = "set" /\ op \in [Threads -> Operation]
    BY DEF SetOpenAllowed, IInv, TypeInv
  <2> QED
    BY <2>1, ReturnStep DEF Idle
<1>3. orderly' => orderly /\ \E r \in Threads : op[r] = Idle /\ op'[r] = Idle
  BY DEF SetOpenAllowed, TakeTurns, Disorder
<1>4. TypeInv'
  BY <1>1, <1>2 DEF SetOpenAllowed, IInv, TypeInv, ContextsKept, suspension
<1>5. FlagsInv'
  BY Zenon DEF SetOpenAllowed, IInv, FlagsInv, TakeTurns, Disorder, suspension
<1>6. OrphanInv'
  BY <1>1, KeptHas DEF SetOpenAllowed, IInv, TypeInv, OrphanInv, Has
<1>7. ThreadInv'
  BY <1>2 DEF SetOpenAllowed, IInv, ThreadInv, Threads, Idle
<1>8. SuspendInv'
  BY <1>1, <1>2, KeptHas
     DEF SetOpenAllowed, IInv, SuspendInv, ThreadInv, Threads, Idle, IsOpenAllowed
<1>9. TurnsInv'
  BY <1>2, <1>3 DEF SetOpenAllowed, IInv, TurnsInv, ThreadInv, Threads, Idle
<1>10. OneContextPerSession'
  BY <1>1, <1>2, <1>3
     DEF SetOpenAllowed, IInv, TypeInv, OneContextPerSession, ContextsKept, TurnsInv,
         ThreadInv, Threads, Idle
<1>11. OpenInv'
  BY <1>1, <1>2, <1>3
     DEF SetOpenAllowed, IInv, TypeInv, OpenInv, ContextsKept, TurnsInv, ThreadInv,
         Threads, Idle, Context
<1>12. ClosedInv'
  <2>1. orderly' /\ t = "workqueue" => \A i \in DOMAIN contexts :
           contexts[i].session = op[t].session => ~contexts[i].open
    <3>1. CASE Find(op[t].session) = 0
      BY <3>1, FindFirst DEF IInv, TypeInv
    <3>2. CASE Find(op[t].session) # 0
      <4>1. Find(op[t].session) \in DOMAIN contexts /\ contexts[Find(op[t].session)].session = op[t].session
        BY <3>2, FindFirst DEF IInv, TypeInv
      <4>2. t = "workqueue" => ~contexts[Find(op[t].session)].open
        BY <3>2 DEF IInv, ThreadInv
      <4> QED
        BY <1>3, <4>1, <4>2 DEF IInv, OneContextPerSession
    <3> QED
      BY <3>1, <3>2
  <2>2. orderly' /\ t # "workqueue" => op'["workqueue"].at = "idle"
    BY <1>2, <1>3 DEF Threads, Idle
  <2> QED
    BY <1>1, <1>2, <2>1, <2>2 DEF ClosedInv, ContextsKept
<1>13. DoorInv'
  BY <1>1, <1>2, <1>3, KeptHas
     DEF SetOpenAllowed, IInv, DoorInv, TurnsInv, ThreadInv, Threads, Idle
<1> QED
  BY <1>4, <1>5, <1>6, <1>7, <1>8, <1>9, <1>10, <1>11, <1>12, <1>13 DEF IInv

(* A session is closed.                                                     *)
LEMMA SetClosesStep ==
  ASSUME IInv, NEW t \in Threads, SetOpenAllowed(t), ~op[t].allow,
         Find(op[t].session) # 0, contexts[Find(op[t].session)].open # op[t].allow PROVE IInv'
<1>1. /\ contexts' \in Seq(Context) /\ Len(contexts') = Len(contexts)
      /\ DOMAIN contexts' = DOMAIN contexts
      /\ Find(op[t].session) \in DOMAIN contexts /\ contexts[Find(op[t].session)].session = op[t].session
      /\ contexts[Find(op[t].session)].open
      /\ \A i \in DOMAIN contexts :
           /\ contexts'[i].session = contexts[i].session
           /\ contexts'[i].open = IF i = Find(op[t].session) THEN FALSE ELSE contexts[i].open
  <2>1. op[t].allow = FALSE
    BY DEF IInv, TypeInv, Operation, Threads
  <2>2. SetOpen(op[t].session, FALSE)
    BY <2>1 DEF SetOpenAllowed, SetOpen
  <2>3. TypeInv /\ FALSE \in BOOLEAN
    BY DEF IInv
  <2>4. Find(op[t].session) \in DOMAIN contexts
    BY <2>3, FindFirst DEF TypeInv
  <2>5. contexts[Find(op[t].session)].open \in BOOLEAN
    BY <2>3, <2>4, ContextSessions
  <2>6. contexts[Find(op[t].session)].open
    BY <2>1, <2>5
  <2> QED
    BY <2>2, <2>3, <2>6, OpenStep
<1>2. /\ op' \in [Threads -> Operation] /\ op[t].at = "set" /\ op[t] # Idle
      /\ op'[t].at = "aggregate" /\ op'[t].session = op[t].session
      /\ op'[t].allow = op[t].allow /\ op'[t].update = op[t].update /\ op'[t].cause = op[t].cause
      /\ \A r \in Threads : r # t => op'[r] = op[r]
  <2>1. GoTo(t, "aggregate") /\ op[t].at = "set" /\ op \in [Threads -> Operation]
    BY DEF SetOpenAllowed, IInv, TypeInv
  <2>2. op[t] # Idle
    BY <2>1 DEF Idle
  <2>3. /\ op' \in [Threads -> Operation] /\ op'[t].at = "aggregate"
        /\ op'[t].session = op[t].session /\ op'[t].allow = op[t].allow
        /\ op'[t].update = op[t].update /\ op'[t].cause = op[t].cause
        /\ \A r \in Threads : r # t => op'[r] = op[r]
    BY <2>1, GoToStep
  <2> QED
    BY <2>1, <2>2, <2>3
<1>3. orderly' => orderly /\ \E r \in Threads : op[r] = Idle /\ op'[r] = Idle
  BY DEF SetOpenAllowed, TakeTurns, Disorder
<1>4. TypeInv'
  BY <1>1, <1>2 DEF SetOpenAllowed, IInv, TypeInv, ContextsKept, suspension
<1>5. FlagsInv'
  BY Zenon DEF SetOpenAllowed, IInv, FlagsInv, TakeTurns, Disorder, suspension
<1>6. OrphanInv'
  <2>1. \A s \in Sessions : Has(s) => Has(s)'
    BY <1>1 DEF Has
  <2>2. UNCHANGED uwb
    BY DEF SetOpenAllowed
  <2> QED
    BY <2>1, <2>2 DEF IInv, OrphanInv
<1>7. ThreadInv'
  BY <1>2 DEF SetOpenAllowed, IInv, ThreadInv, Threads, Idle
<1>8. SuspendInv'
  <2>1. CASE t = "driver"
    <3>1. IsOpenAllowed
      BY <1>1 DEF IsOpenAllowed
    <3> QED
      BY <1>2, <2>1, <3>1 DEF IInv, SuspendInv
  <2>2. CASE t # "driver"
    <3>1. op'["driver"] = op["driver"]
      BY <1>2, <2>2 DEF Threads
    <3>2. ~IsOpenAllowed => ~IsOpenAllowed'
      BY <1>1 DEF IsOpenAllowed
    <3> QED
      BY <3>1, <3>2 DEF IInv, SuspendInv
  <2> QED
    BY <2>1, <2>2
<1>9. TurnsInv'
  BY <1>2, <1>3 DEF SetOpenAllowed, IInv, TurnsInv, ThreadInv, Threads, Idle
<1>10. OneContextPerSession'
  <2>1. UNCHANGED stack
    BY DEF SetOpenAllowed
  <2>2. op["workqueue"].at = "remove" =>
          op'["workqueue"].at = "remove" /\ op'["workqueue"].session = op["workqueue"].session
    BY <1>2 DEF Threads
  <2>3. /\ DOMAIN contexts' = DOMAIN contexts
        /\ \A i \in DOMAIN contexts : contexts'[i].session = contexts[i].session
    BY <1>1
  <2>4. orderly' => \A i, j \in DOMAIN contexts' :
           contexts'[i].session = contexts'[j].session => i = j
    BY <1>3, <2>3 DEF IInv, OneContextPerSession
  <2>5. orderly' => \A i \in DOMAIN contexts' :
           \/ stack'[contexts'[i].session] \in {"granted", "ranging"}
           \/ /\ op'["workqueue"].at = "remove"
              /\ op'["workqueue"].session = contexts'[i].session
    BY <1>3, <2>1, <2>2, <2>3 DEF IInv, OneContextPerSession
  <2> QED
    BY <2>4, <2>5 DEF OneContextPerSession
<1>11. OpenInv'
  <2>1. UNCHANGED <<stack, uwb>>
    BY DEF SetOpenAllowed
  <2>2. orderly' => \A s \in Sessions : uwb'[s] # "none" => stack'[s] = "ranging"
    BY <1>3, <2>1 DEF IInv, OpenInv
  <2>3. op'["driver"].allow => op'["driver"] = op["driver"] \/
          (op["driver"].allow /\ op'["driver"].session = op["driver"].session)
    BY <1>2 DEF Threads, Idle
  <2>4. /\ DOMAIN contexts' = DOMAIN contexts
        /\ \A i \in DOMAIN contexts :
             /\ contexts'[i].session = contexts[i].session
             /\ contexts'[i].open => contexts[i].open
    BY <1>1
  <2>5. orderly' => \A i \in DOMAIN contexts' :
           contexts'[i].open => stack'[contexts'[i].session] = "ranging"
    BY <1>3, <2>1, <2>4 DEF IInv, OpenInv
  <2>6. orderly' /\ op'["driver"].allow =>
           \E s \in Sessions : op'["driver"].session = s /\ stack'[s] = "ranging"
    BY <1>3, <2>1, <2>3 DEF IInv, OpenInv
  <2> QED
    BY <2>2, <2>5, <2>6 DEF OpenInv
<1>12. ClosedInv'
  <2>1. CASE t = "workqueue"
    <3>1. orderly' => \A i \in DOMAIN contexts :
             contexts[i].session = op[t].session => i = Find(op[t].session)
      BY <1>1, <1>3 DEF IInv, OneContextPerSession
    <3>2. orderly' => \A i \in DOMAIN contexts' :
             contexts'[i].session = op[t].session => ~contexts'[i].open
      BY <1>1, <3>1
    <3> QED
      BY <1>2, <2>1, <3>2 DEF ClosedInv
  <2>2. CASE t # "workqueue"
    <3>1. orderly' => op'["workqueue"].at = "idle"
      BY <1>2, <1>3, <2>2 DEF Threads, Idle
    <3> QED
      BY <3>1 DEF ClosedInv
  <2> QED
    BY <2>1, <2>2
<1>13. DoorInv'
  <2>1. IsOpenAllowed
    BY <1>1 DEF IsOpenAllowed
  <2>2. orderly' => \A r \in Threads : r # t => op[r] = Idle /\ op'[r] = Idle
    BY <1>2, <1>3 DEF Threads
  <2>3. orderly' => door = "unlocked"
    BY <1>2, <1>3, <2>1, <2>2 DEF IInv, DoorInv, Threads, Idle
  <2>4. UNCHANGED door
    BY DEF SetOpenAllowed
  <2> QED
    BY <1>2, <2>2, <2>3, <2>4 DEF DoorInv, Idle
<1> QED
  BY <1>4, <1>5, <1>6, <1>7, <1>8, <1>9, <1>10, <1>11, <1>12, <1>13 DEF IInv

(* The first session is opened: the door is to be unlocked.                 *)
LEMMA SetUnlocksStep ==
  ASSUME IInv, SetOpenAllowed("driver"), op["driver"].allow, op["driver"].update,
         ~IsOpenAllowed,
         Find(op["driver"].session) # 0, contexts[Find(op["driver"].session)].open # op["driver"].allow PROVE IInv'
<1>1. /\ contexts' \in Seq(Context) /\ Len(contexts') = Len(contexts)
      /\ DOMAIN contexts' = DOMAIN contexts
      /\ Find(op["driver"].session) \in DOMAIN contexts /\ contexts[Find(op["driver"].session)].session = op["driver"].session
      /\ ~contexts[Find(op["driver"].session)].open
      /\ \A i \in DOMAIN contexts :
           /\ contexts'[i].session = contexts[i].session
           /\ contexts'[i].open = IF i = Find(op["driver"].session) THEN TRUE ELSE contexts[i].open
  <2>1. op["driver"].allow = TRUE
    BY DEF IInv, TypeInv, Operation, Threads
  <2>2. SetOpen(op["driver"].session, TRUE)
    BY <2>1 DEF SetOpenAllowed, SetOpen
  <2>3. TypeInv /\ TRUE \in BOOLEAN
    BY DEF IInv
  <2>4. Find(op["driver"].session) \in DOMAIN contexts
    BY <2>3, FindFirst DEF TypeInv
  <2>5. contexts[Find(op["driver"].session)].open \in BOOLEAN
    BY <2>3, <2>4, ContextSessions
  <2>6. ~contexts[Find(op["driver"].session)].open
    BY <2>1, <2>5
  <2> QED
    BY <2>2, <2>3, <2>6, OpenStep
<1>2. /\ op' \in [Threads -> Operation] /\ op["driver"].at = "set" /\ op["driver"] # Idle
      /\ op'["driver"].at = "unlock" /\ op'["driver"].session = op["driver"].session
      /\ op'["driver"].allow = op["driver"].allow /\ op'["driver"].update = op["driver"].update /\ op'["driver"].cause = op["driver"].cause
      /\ \A r \in Threads : r # "driver" => op'[r] = op[r]
  <2>1. GoTo("driver", "unlock") /\ op["driver"].at = "set" /\ op \in [Threads -> Operation]
    BY DEF SetOpenAllowed, IInv, TypeInv
  <2>2. op["driver"] # Idle
    BY <2>1 DEF Idle
  <2>3. /\ op' \in [Threads -> Operation] /\ op'["driver"].at = "unlock"
        /\ op'["driver"].session = op["driver"].session /\ op'["driver"].allow = op["driver"].allow
        /\ op'["driver"].update = op["driver"].update /\ op'["driver"].cause = op["driver"].cause
        /\ \A r \in Threads : r # "driver" => op'[r] = op[r]
    BY <2>1, GoToStep DEF Threads
  <2> QED
    BY <2>1, <2>2, <2>3
<1>3. orderly' => orderly /\ \E r \in Threads : op[r] = Idle /\ op'[r] = Idle
  BY DEF SetOpenAllowed, TakeTurns, Disorder
<1>4. TypeInv'
  BY <1>1, <1>2 DEF SetOpenAllowed, IInv, TypeInv, ContextsKept, suspension
<1>5. FlagsInv'
  BY Zenon DEF SetOpenAllowed, IInv, FlagsInv, TakeTurns, Disorder, suspension
<1>6. OrphanInv'
  <2>1. \A s \in Sessions : Has(s) => Has(s)'
    BY <1>1 DEF Has
  <2>2. UNCHANGED uwb
    BY DEF SetOpenAllowed
  <2> QED
    BY <2>1, <2>2 DEF IInv, OrphanInv
<1>7. ThreadInv'
  BY <1>2 DEF SetOpenAllowed, IInv, ThreadInv, Threads, Idle
<1>8. SuspendInv'
  BY <1>1, <1>2
     DEF SetOpenAllowed, IInv, SuspendInv, ThreadInv, Threads, Idle, IsOpenAllowed
<1>9. TurnsInv'
  BY <1>2, <1>3 DEF SetOpenAllowed, IInv, TurnsInv, ThreadInv, Threads, Idle
<1>10. OneContextPerSession'
  <2>1. UNCHANGED stack
    BY DEF SetOpenAllowed
  <2>2. op["workqueue"].at = "remove" =>
          op'["workqueue"].at = "remove" /\ op'["workqueue"].session = op["workqueue"].session
    BY <1>2 DEF Threads
  <2>3. /\ DOMAIN contexts' = DOMAIN contexts
        /\ \A i \in DOMAIN contexts : contexts'[i].session = contexts[i].session
    BY <1>1
  <2>4. orderly' => \A i, j \in DOMAIN contexts' :
           contexts'[i].session = contexts'[j].session => i = j
    BY <1>3, <2>3 DEF IInv, OneContextPerSession
  <2>5. orderly' => \A i \in DOMAIN contexts' :
           \/ stack'[contexts'[i].session] \in {"granted", "ranging"}
           \/ /\ op'["workqueue"].at = "remove"
              /\ op'["workqueue"].session = contexts'[i].session
    BY <1>3, <2>1, <2>2, <2>3 DEF IInv, OneContextPerSession
  <2> QED
    BY <2>4, <2>5 DEF OneContextPerSession
<1>11. OpenInv'
  <2>1. UNCHANGED <<stack, uwb>>
    BY DEF SetOpenAllowed
  <2>2. orderly' => \A s \in Sessions : uwb'[s] # "none" => stack'[s] = "ranging"
    BY <1>3, <2>1 DEF IInv, OpenInv
  <2>3. op'["driver"].allow => op'["driver"] = op["driver"] \/
          (op["driver"].allow /\ op'["driver"].session = op["driver"].session)
    BY <1>2 DEF Threads, Idle
  <2>4. orderly' => stack[op["driver"].session] = "ranging"
    BY <1>3 DEF IInv, OpenInv
  <2>5. /\ DOMAIN contexts' = DOMAIN contexts
        /\ \A i \in DOMAIN contexts :
             /\ contexts'[i].session = contexts[i].session
             /\ contexts'[i].open => contexts[i].open \/ contexts[i].session = op["driver"].session
    BY <1>1
  <2>6. orderly' => \A i \in DOMAIN contexts' :
           contexts'[i].open => stack'[contexts'[i].session] = "ranging"
    BY <1>3, <2>1, <2>5, <2>4 DEF IInv, OpenInv
  <2>7. orderly' /\ op'["driver"].allow =>
           \E s \in Sessions : op'["driver"].session = s /\ stack'[s] = "ranging"
    BY <1>3, <2>1, <2>3 DEF IInv, OpenInv
  <2> QED
    BY <2>2, <2>6, <2>7 DEF OpenInv
<1>12. ClosedInv'
  BY <1>1, <1>2, <1>3
     DEF SetOpenAllowed, IInv, TypeInv, ClosedInv, ContextsKept, TurnsInv, ThreadInv,
         Threads, Idle
<1>13. DoorInv'
  <2>1. IsOpenAllowed'
    BY <1>1 DEF IsOpenAllowed
  <2>2. orderly' => op["workqueue"] = Idle /\ op'["workqueue"] = Idle
    BY <1>2, <1>3 DEF Threads
  <2>3. UNCHANGED door
    BY DEF SetOpenAllowed
  <2> QED
    BY <1>2, <2>1, <2>2, <2>3 DEF DoorInv, Idle, Threads
<1> QED
  BY <1>4, <1>5, <1>6, <1>7, <1>8, <1>9, <1>10, <1>11, <1>12, <1>13 DEF IInv

(* A session is opened beside another one.                                  *)
LEMMA SetOpensStep ==
  ASSUME IInv, SetOpenAllowed("driver"), op["driver"].allow,
         ~(op["driver"].update /\ ~IsOpenAllowed),
         Find(op["driver"].session) # 0, contexts[Find(op["driver"].session)].open # op["driver"].allow PROVE IInv'
<1>1. /\ contexts' \in Seq(Context) /\ Len(contexts') = Len(contexts)
      /\ DOMAIN contexts' = DOMAIN contexts
      /\ Find(op["driver"].session) \in DOMAIN contexts /\ contexts[Find(op["driver"].session)].session = op["driver"].session
      /\ ~contexts[Find(op["driver"].session)].open
      /\ \A i \in DOMAIN contexts :
           /\ contexts'[i].session = contexts[i].session
           /\ contexts'[i].open = IF i = Find(op["driver"].session) THEN TRUE ELSE contexts[i].open
  <2>1. op["driver"].allow = TRUE
    BY DEF IInv, TypeInv, Operation, Threads
  <2>2. SetOpen(op["driver"].session, TRUE)
    BY <2>1 DEF SetOpenAllowed, SetOpen
  <2>3. TypeInv /\ TRUE \in BOOLEAN
    BY DEF IInv
  <2>4. Find(op["driver"].session) \in DOMAIN contexts
    BY <2>3, FindFirst DEF TypeInv
  <2>5. contexts[Find(op["driver"].session)].open \in BOOLEAN
    BY <2>3, <2>4, ContextSessions
  <2>6. ~contexts[Find(op["driver"].session)].open
    BY <2>1, <2>5
  <2> QED
    BY <2>2, <2>3, <2>6, OpenStep
<1>2. /\ op' \in [Threads -> Operation] /\ op["driver"].at = "set" /\ op["driver"] # Idle
      /\ op'["driver"] = Idle
      /\ \A r \in Threads : r # "driver" => op'[r] = op[r]
  <2>1. Return("driver") /\ op["driver"].at = "set" /\ op \in [Threads -> Operation]
    BY DEF SetOpenAllowed, IInv, TypeInv
  <2> QED
    BY <2>1, ReturnStep DEF Idle, Threads
<1>3. orderly' => orderly /\ \E r \in Threads : op[r] = Idle /\ op'[r] = Idle
  BY DEF SetOpenAllowed, TakeTurns, Disorder
<1>4. TypeInv'
  BY <1>1, <1>2 DEF SetOpenAllowed, IInv, TypeInv, ContextsKept, suspension
<1>5. FlagsInv'
  BY Zenon DEF SetOpenAllowed, IInv, FlagsInv, TakeTurns, Disorder, suspension
<1>6. OrphanInv'
  <2>1. \A s \in Sessions : Has(s) => Has(s)'
    BY <1>1 DEF Has
  <2>2. UNCHANGED uwb
    BY DEF SetOpenAllowed
  <2> QED
    BY <2>1, <2>2 DEF IInv, OrphanInv
<1>7. ThreadInv'
  BY <1>2 DEF SetOpenAllowed, IInv, ThreadInv, Threads, Idle
<1>8. SuspendInv'
  BY <1>1, <1>2
     DEF SetOpenAllowed, IInv, SuspendInv, ThreadInv, Threads, Idle, IsOpenAllowed
<1>9. TurnsInv'
  BY <1>2, <1>3 DEF SetOpenAllowed, IInv, TurnsInv, ThreadInv, Threads, Idle
<1>10. OneContextPerSession'
  <2>1. UNCHANGED stack
    BY DEF SetOpenAllowed
  <2>2. op["workqueue"].at = "remove" =>
          op'["workqueue"].at = "remove" /\ op'["workqueue"].session = op["workqueue"].session
    BY <1>2 DEF Threads
  <2>3. /\ DOMAIN contexts' = DOMAIN contexts
        /\ \A i \in DOMAIN contexts : contexts'[i].session = contexts[i].session
    BY <1>1
  <2>4. orderly' => \A i, j \in DOMAIN contexts' :
           contexts'[i].session = contexts'[j].session => i = j
    BY <1>3, <2>3 DEF IInv, OneContextPerSession
  <2>5. orderly' => \A i \in DOMAIN contexts' :
           \/ stack'[contexts'[i].session] \in {"granted", "ranging"}
           \/ /\ op'["workqueue"].at = "remove"
              /\ op'["workqueue"].session = contexts'[i].session
    BY <1>3, <2>1, <2>2, <2>3 DEF IInv, OneContextPerSession
  <2> QED
    BY <2>4, <2>5 DEF OneContextPerSession
<1>11. OpenInv'
  <2>1. UNCHANGED <<stack, uwb>>
    BY DEF SetOpenAllowed
  <2>2. orderly' => \A s \in Sessions : uwb'[s] # "none" => stack'[s] = "ranging"
    BY <1>3, <2>1 DEF IInv, OpenInv
  <2>3. op'["driver"].allow => op'["driver"] = op["driver"] \/
          (op["driver"].allow /\ op'["driver"].session = op["driver"].session)
    BY <1>2 DEF Threads, Idle
  <2>4. orderly' => stack[op["driver"].session] = "ranging"
    BY <1>3 DEF IInv, OpenInv
  <2>5. /\ DOMAIN contexts' = DOMAIN contexts
        /\ \A i \in DOMAIN contexts :
             /\ contexts'[i].session = contexts[i].session
             /\ contexts'[i].open => contexts[i].open \/ contexts[i].session = op["driver"].session
    BY <1>1
  <2>6. orderly' => \A i \in DOMAIN contexts' :
           contexts'[i].open => stack'[contexts'[i].session] = "ranging"
    BY <1>3, <2>1, <2>5, <2>4 DEF IInv, OpenInv
  <2>7. orderly' /\ op'["driver"].allow =>
           \E s \in Sessions : op'["driver"].session = s /\ stack'[s] = "ranging"
    BY <1>3, <2>1, <2>3 DEF IInv, OpenInv
  <2> QED
    BY <2>2, <2>6, <2>7 DEF OpenInv
<1>12. ClosedInv'
  BY <1>1, <1>2, <1>3
     DEF SetOpenAllowed, IInv, TypeInv, ClosedInv, ContextsKept, TurnsInv, ThreadInv,
         Threads, Idle
<1>13. DoorInv'
  <2>1. IsOpenAllowed'
    BY <1>1 DEF IsOpenAllowed
  <2>2. orderly' => op["workqueue"] = Idle /\ op'["workqueue"] = Idle
    BY <1>2, <1>3 DEF Threads
  <2>3. orderly' => IsOpenAllowed
    BY <1>2, <1>3 DEF IInv, TurnsInv, Threads, Idle
  <2>4. orderly' => door = "unlocked"
    BY <1>2, <1>3, <2>2, <2>3 DEF IInv, DoorInv, Threads, Idle
  <2>5. UNCHANGED door
    BY DEF SetOpenAllowed
  <2> QED
    BY <1>2, <2>1, <2>2, <2>5, <2>4 DEF DoorInv, Idle, Threads
<1> QED
  BY <1>4, <1>5, <1>6, <1>7, <1>8, <1>9, <1>10, <1>11, <1>12, <1>13 DEF IInv

-----------------------------------------------------------------------------
(* The cases of the actions that have several outcomes.                     *)

LEMMA AllocateKeeps ==
  ASSUME IInv, NEW s \in Sessions, AllocateRangingSession(s) PROVE IInv'
  BY AllocatedStep, NotAllocatedStep

LEMMA AddKeeps ==
  ASSUME IInv, NEW s \in Sessions, AddRangingSession(s) PROVE IInv'
  BY AddedStep, NotAddedStep

LEMMA RemoveKeeps == ASSUME IInv, RemoveRangingSession PROVE IInv'
<1> DEFINE s == op["workqueue"].session
<1>1. CASE Find(s) # 0 /\ contexts' = RemoveAt(contexts, Find(s)) /\ uwb' = [uwb EXCEPT ![s] = "none"]
  BY <1>1, RemovedStep
<1>2. CASE UNCHANGED contexts /\ (orderly' => Find(s) = 0 /\ uwb' = [uwb EXCEPT ![s] = "none"])
  BY <1>2, NotRemovedStep
<1> QED
  BY <1>1, <1>2 DEF RemoveRangingSession, Disorder

LEMMA SetKeeps ==
  ASSUME IInv, NEW t \in Threads, SetOpenAllowed(t) PROVE IInv'
<1> DEFINE i == Find(op[t].session)
<1>1. CASE i = 0 \/ contexts[i].open = op[t].allow
  BY <1>1, NothingToSetStep
<1>2. CASE i # 0 /\ contexts[i].open # op[t].allow /\ ~op[t].allow
  BY <1>2, SetClosesStep
<1>3. CASE i # 0 /\ contexts[i].open # op[t].allow /\ op[t].allow
  <2>1. t = "driver"
    BY <1>3 DEF IInv, ThreadInv, Threads
  <2> QED
    BY <1>3, <2>1, SetUnlocksStep, SetOpensStep
<1> QED
  BY <1>1, <1>2, <1>3

LEMMA AggregateKeeps ==
  ASSUME IInv, NEW t \in Threads, Aggregate(t) PROVE IInv'
  BY AggregateReturnsStep, AggregateLocksStep

(* Every step keeps the invariant.                                          *)
LEMMA Inductive == IInv /\ [Next]_vars => IInv'
<1> SUFFICES ASSUME IInv, [Next]_vars PROVE IInv'
  OBVIOUS
<1>1. CASE Workqueue
  BY <1>1, AllocateKeeps, AddKeeps, TerminatedStep, RemoveKeeps DEF Workqueue
<1>2. CASE Driver
  BY <1>2, DataStep, StartedStep, SuspendedStep, DestroyedStep, CheckStep DEF Driver
<1>3. CASE Either
  BY <1>3, SetKeeps, AggregateKeeps, UnlockedStep, LockedStep DEF Either
<1>4. CASE Suspend
  BY <1>4, FoundStep, SuspendOneStep DEF Suspend
<1>5. CASE UNCHANGED vars
  <2>1. /\ TypeInv' /\ FlagsInv' /\ OrphanInv'
    BY <1>5 DEF vars, suspension, IInv, TypeInv, FlagsInv, OrphanInv, Has
  <2>2. ThreadInv' /\ SuspendInv' /\ TurnsInv'
    BY <1>5 DEF vars, IInv, ThreadInv, SuspendInv, TurnsInv, IsOpenAllowed
  <2>3. OneContextPerSession' /\ OpenInv' /\ ClosedInv' /\ DoorInv'
    BY <1>5
       DEF vars, IInv, OneContextPerSession, OpenInv, ClosedInv, DoorInv,
           IsOpenAllowed
  <2> QED
    BY <2>1, <2>2, <2>3 DEF IInv
<1> QED
  BY <1>1, <1>2, <1>3, <1>4, <1>5 DEF Next

(* Nothing is known at first, and both threads are idle.                    *)
LEMMA Initial == Init => IInv
<1> SUFFICES ASSUME Init PROVE IInv
  OBVIOUS
<1>1. /\ op["driver"] = Idle /\ op["workqueue"] = Idle /\ op \in [Threads -> Operation]
      /\ \A t \in Threads : op[t] = Idle
  BY DEF Init, Threads, Operation, Idle
<1>2. contexts \in Seq(Context) /\ Len(contexts) = 0 /\ DOMAIN contexts = {}
  BY EmptySeq, LenProperties DEF Init
<1>3. ~IsOpenAllowed
  BY <1>2 DEF IsOpenAllowed
<1>4. TypeInv
  BY <1>1, <1>2, ContextsAssumption DEF Init, TypeInv
<1>5. FlagsInv
  BY Zenon DEF Init, FlagsInv
<1>6. OrphanInv /\ OpenInv /\ OneContextPerSession /\ ClosedInv
  BY <1>1, <1>2 DEF Init, OrphanInv, OpenInv, OneContextPerSession, ClosedInv, Idle
<1>7. ThreadInv /\ SuspendInv /\ TurnsInv
  BY <1>1 DEF ThreadInv, SuspendInv, TurnsInv, Threads, Idle
<1>8. DoorInv
  BY <1>1, <1>3 DEF Init, DoorInv, Idle
<1> QED
  BY <1>4, <1>5, <1>6, <1>7, <1>8 DEF IInv

(* The invariant holds.                                                     *)
LEMMA Invariant == Spec => []IInv
  BY Initial, Inductive, PTL DEF Spec

(* The driver has no session without a context, for any number of sessions  *)
(* and contexts, with a driver that may fail: RemoveRangingSession keeps    *)
(* the context until the driver has ended its session.                      *)
THEOREM NobodyIsOrphaned == Spec => []NoOrphanedRanging
<1>1. IInv => NoOrphanedRanging
  <2> SUFFICES ASSUME IInv PROVE NoOrphanedRanging
    OBVIOUS
  <2>1. /\ contexts \in Seq([session : Sessions, open : BOOLEAN, active : BOOLEAN])
        /\ op \in [Threads ->
             [at : {"idle", "set", "check", "aggregate", "unlock", "lock", "remove"},
              session : Sessions \union {"none"}, allow : BOOLEAN, update : BOOLEAN,
              cause : {"none", "start", "termination", "data", "suspended", "destroyed"}]]
    BY DEF IInv, TypeInv, Context, Operation
  <2>2. {unsecured, orderly} \subseteq BOOLEAN
    BY Zenon DEF IInv, FlagsInv
  <2>3. TypeOK
    BY <2>1, <2>2 DEF IInv, TypeInv, TypeOK
  <2>4. \A s \in Sessions : uwb[s] # "none" => Find(s) # 0
    BY FindFirst DEF IInv, TypeInv, OrphanInv, Has
  <2> QED
    BY <2>3, <2>4 DEF NoOrphanedRanging
<1> QED
  BY Invariant, <1>1, PTL

(* A session that is suspended never locks the door, whoever suspended it   *)
(* and whatever ends meanwhile: SetOpenAllowed of the suspension is told to *)
(* update the reader only if no session is open, and only the thread that   *)
(* runs it could open one.                                                  *)
THEOREM SuspendingNeverLocks == Spec => []SuspensionNeverLocks
<1>1. IInv => SuspensionNeverLocks
  BY DEF IInv, SuspendInv, ThreadInv, SuspensionNeverLocks, Threads
<1> QED
  BY Invariant, <1>1, PTL

(* While things are orderly a session has one context, and it goes with the *)
(* session: the next user of the handle starts with a session that is       *)
(* closed.                                                                  *)
THEOREM ContextsAreOwned == Spec => []OneContextPerSession
<1>1. IInv => OneContextPerSession
  BY DEF IInv
<1> QED
  BY Invariant, <1>1, PTL

(* While things are orderly the door is unlocked exactly while a session in *)
(* range is open, for any number of sessions.                               *)
THEOREM DoorIsRight == Spec => []DoorFollowsSessions
<1>1. IInv => DoorFollowsSessions
  BY DEF IInv, DoorInv, DoorFollowsSessions, Quiet, Idle
<1> QED
  BY Invariant, <1>1, PTL

=============================================================================
