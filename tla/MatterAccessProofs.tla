------------------------- MODULE MatterAccessProofs -------------------------
(* Proofs about MatterAccess, for any users, credentials, secrets, schedules  *)
(* and number of failures. The inductive invariant IInv relates RAM to the    *)
(* storage at each step of a command; each of its parts holds unless one of   *)
(* the failures happened that break it. What the lists of indices and a load  *)
(* do comes first, then what each action does (...Does), then one lemma per   *)
(* part (...Step).                                                            *)
EXTENDS MatterAccess, FiniteSetTheorems, SequenceTheorems, TLAPS

-----------------------------------------------------------------------------
(* The inductive invariant.                                                   *)

UserSet == [status : {"available", "enabled", "disabled"}, creds : SUBSET Creds]
CredSet == [status : {"available", "occupied"}, secret : Secrets \cup {Empty}]
Lists(S) == {list \in Seq(S) : IsInjective(list)}
Items == {"user", "cred", "schedule"} \X (Users \cup Creds \cup Schedules \cup {0})

OpSet == [at : {"idle", "setUser", "userIdx", "setCred", "credIdx", "schedIdx", "remove", "reboot"},
          u : Users \cup {0}, c : Creds \cup Schedules \cup {0}, user : UserSet,
          secret : Secrets \cup {Empty}, clear : BOOLEAN,
          then : {"idle", "setUser", "setCred"}, todo : Seq(Items)]

(* The command, at each of its steps.                                         *)
OpInv ==
    /\ op \in OpSet
    /\ op.at \in {"setUser", "userIdx"} => op.then # "setUser"
    /\ op.at \in {"setCred", "credIdx"} => op.then # "setCred"
    /\ op.at \in {"idle", "schedIdx", "remove", "reboot"} => op.then = "idle"
    /\ At("setUser") \/ op.then = "setUser" => op.u \in Users
    /\ At("setCred") \/ op.then = "setCred" => op.c \in Creds
    /\ op.then = "setCred" => ~op.clear /\ op.secret \in Secrets
    /\ At("setCred") => op.clear \/ op.secret \in Secrets
    /\ At("setCred") \/ At("credIdx") => op.clear = (op.then = "setUser")
    /\ At("credIdx") => op.c \in Creds
    /\ At("schedIdx") => op.c \in Schedules
    /\ At("reboot") => op.todo = <<>>

TypeInv ==
    /\ user \in [Users -> UserSet] /\ sUser \in [Users -> UserSet \cup {None}]
    /\ cred \in [Creds -> CredSet] /\ sCred \in [Creds -> CredSet \cup {None}]
    /\ sched \in [Schedules -> BOOLEAN] /\ sSched \in [Schedules -> {TRUE, None}]
    /\ userIdx \in Lists(Users) /\ sUserIdx \in Lists(Users) \cup {None}
    /\ credIdx \in Lists(Creds) /\ sCredIdx \in Lists(Creds) \cup {None}
    /\ schedIdx \in Lists(Schedules) /\ sSchedIdx \in Lists(Schedules) \cup {None}
    /\ faults \in 0..MaxFaults
    /\ given \in [Secrets -> Users \cup {0}]
    /\ cleared \subseteq Schedules

(* A secret that is set is the secret of no credential yet.                   *)
SecretInv ==
    /\ op.then = "setCred" \/ (At("setCred") /\ ~op.clear) => \A c \in Creds : cred[c].secret # op.secret
    /\ At("credIdx") /\ cred[op.c].status = "occupied" =>
          \A c \in Creds \ {op.c} : cred[c].secret # cred[op.c].secret

(* A factory reset is under way or over.                                      *)
Erasing == op.at \in {"remove", "reboot"}

(* A schedule that is not there will not be there after a restart; one that   *)
(* is there will.                                                             *)
Schedule ==
    /\ \A i \in Schedules :
          IF sched[i] THEN ~Erasing => sSched[i] # None /\ i \in ToSet(schedIdx)
          ELSE \/ sSched[i] = None
               \/ i \notin ToSet(schedIdx) /\ i \notin ToSet(Listed(sSchedIdx))
    /\ \A i \in cleared : ~sched[i]
    /\ At("schedIdx") /\ op.clear => ~sched[op.c]
    /\ ~Erasing /\ ~At("schedIdx") => Listed(sSchedIdx) = schedIdx

(* The users in RAM are those in storage, the lists too between the stores.   *)
Stored ==
    /\ ~Erasing =>
          /\ \A u \in Users : user[u] = IF u \in ToSet(userIdx) /\ sUser[u] # None THEN sUser[u] ELSE NoUser
          /\ \A c \in ToSet(credIdx) : sCred[c] # None
          /\ At("userIdx") \/ Listed(sUserIdx) = userIdx
          /\ At("credIdx") \/ Listed(sCredIdx) = credIdx
    /\ ~At("remove") => \A c \in ToSet(Listed(sCredIdx)) : sCred[c] # None
    /\ Erasing => /\ Listed(sUserIdx) = <<>> \/ <<"user", 0>> \in ToSet(op.todo)
                  /\ Listed(sCredIdx) = <<>> \/ <<"cred", 0>> \in ToSet(op.todo)

(* The credentials in RAM are those in storage.                               *)
Loaded ==
    ~Erasing => \A c \in Creds : cred[c] = IF c \in ToSet(credIdx) THEN sCred[c] ELSE NoCred

(* What a restart loses before the lists are stored: at most what the command *)
(* has set, and never a user who is disabled.                                 *)
Unlisted ==
    /\ At("userIdx") => /\ ToSet(userIdx) = ToSet(Listed(sUserIdx)) \cup {op.u}
                        /\ op.u \in Users
                        /\ user[op.u].status = "disabled" => op.u \in ToSet(Listed(sUserIdx))
    /\ (At("setUser") \/ op.then = "setUser") /\ op.user.status = "disabled" => op.u \in ToSet(userIdx)
    /\ At("credIdx") => ToSet(credIdx) = ToSet(Listed(sCredIdx)) \cup {op.c}

(* What is stored is listed, until it is removed, and removed before the list *)
(* is.                                                                        *)
Order(todo) ==
    \A p, q \in DOMAIN todo : p < q =>
        /\ todo[q][1] = "user" /\ todo[q][2] # 0 => todo[p][1] = "user" /\ todo[p][2] # 0
        /\ todo[q][1] = "cred" /\ todo[q][2] # 0 => todo[p] # <<"cred", 0>>
InPlace == ~Erasing \/ \E u \in Users : <<"user", u>> \in ToSet(op.todo)
Removable ==
    /\ ~Erasing => /\ \A u \in Users : sUser[u] # None => u \in ToSet(userIdx)
                   /\ \A c \in Creds : sCred[c] # None => c \in ToSet(credIdx)
                   /\ At("userIdx") \/ Listed(sUserIdx) = userIdx
                   /\ At("credIdx") \/ Listed(sCredIdx) = credIdx
    /\ Erasing => /\ \A u \in Users : sUser[u] # None =>
                        <<"user", u>> \in ToSet(op.todo) /\ u \in ToSet(Listed(sUserIdx))
                  /\ \A c \in Creds : sCred[c] # None =>
                        <<"cred", c>> \in ToSet(op.todo) /\ c \in ToSet(Listed(sCredIdx))
                  /\ Order(op.todo)
                  /\ InPlace => Listed(sCredIdx) = credIdx

(* A credential is being added to a user, or cleared.                         *)
Adding(c)   == op.c = c /\ (op.then = "setCred" \/ At("setCred")) /\ ~op.clear
Clearing(c) == op.c = c /\ op.at \in {"setCred", "credIdx", "setUser"} /\ op.clear

(* A credential that is listed but not stored is a copy of the one that is    *)
(* stored before it, if it has its secret: what is between them is too.       *)
Copies ==
    \A p, q \in DOMAIN credIdx :
        /\ sCred[credIdx[p]] = None /\ cred[credIdx[p]].status = "occupied"
        /\ sCred[credIdx[q]] # None /\ cred[credIdx[q]] = cred[credIdx[p]]
        => q < p /\ \A r \in q + 1 .. p : sCred[credIdx[r]] = None /\ cred[credIdx[r]].status = "occupied"

(* What a factory reset that is cut leaves: users with all their credentials, *)
(* or none.                                                                   *)
Kept ==
    /\ ~Erasing => \A u \in Users : user[u] = IF sUser[u] # None THEN sUser[u] ELSE NoUser
    /\ At("remove") => \A u \in Users : sUser[u] # None => user[u] = sUser[u]
    /\ InPlace =>
          /\ \A c \in Creds : sCred[c] # None => cred[c] = sCred[c]
          /\ \A c \in Creds \ ToSet(credIdx) : cred[c] = NoCred
          /\ \A u \in Users : \A c \in user[u].creds : sCred[c] # None \/ Adding(c)
          /\ Copies
    /\ \A c, d \in Creds : sCred[c] # None /\ sCred[c].status = "occupied" /\ sCred[d] = sCred[c] => c = d
    /\ (At("setCred") \/ op.then = "setCred") /\ sCred[op.c] = None => cred[op.c].status = "available"

(* A credential has one user, the one its secret was set for.                 *)
Owned ==
    /\ \A u \in Users : user[u].status = "available" => user[u].creds = {}
    /\ \A u, v \in Users : \A c \in user[u].creds \cap user[v].creds : u = v
    /\ \A u \in Users : \A c \in user[u].creds :
          /\ cred[c].status = "occupied" => cred[c].secret \in Secrets /\ given[cred[c].secret] = u
          /\ cred[c].status = "occupied" \/ Adding(c) \/ Clearing(c)
    /\ At("setUser") => /\ op.user.status = "available" => op.user.creds = {}
                        /\ op.then = "setCred" => op.user.creds \subseteq user[op.u].creds \cup {op.c}
                        /\ op.then = "idle" =>
                              op.user.creds \subseteq user[op.u].creds \ (IF op.clear THEN {op.c} ELSE {})
    /\ op.then = "setCred" => /\ cred[op.c].status = "available" /\ given[op.secret] = op.u
                              /\ \A u \in Users : op.c \in user[u].creds => u = op.u
    /\ op.then = "setUser" => op.user.creds \subseteq user[op.u].creds \ {op.c}
                              /\ (op.user.status = "available" => op.user.creds = {})
    /\ At("setCred") /\ ~op.clear => \A u \in Users : op.c \in user[u].creds => given[op.secret] = u
    /\ \A c \in Creds : Clearing(c) => op.u \in Users /\ c \in user[op.u].creds

Broken == {"user", "userIdx", "cred", "credIdx", "remove"}

IInv ==
    /\ OpInv /\ TypeInv /\ SecretInv
    /\ Unless({"schedule"}, Schedule)
    /\ Unless(Broken \cup {"reset"}, Stored /\ Unlisted)
    /\ Unless(Broken \cup {"reset", "load"}, Loaded)
    /\ Unless(Broken \cup {"cut"}, Removable)
    /\ Unless(Broken \cup {"cut", "load"}, Kept /\ Owned)

-----------------------------------------------------------------------------
(* Numbers.                                                                   *)

(* A set of natural numbers has a least one.                                  *)
LEMMA LeastIn ==
  ASSUME NEW S, S \subseteq Nat, S # {}
  PROVE  \E x \in S : \A y \in S : x <= y
<1> PICK n \in S : TRUE
  OBVIOUS
<1> DEFINE T == {0 .. x : x \in S \cap 0 .. n}
           R == StrictSubsetOrdering(0 .. n)
<1>1. IsWellFoundedOn(R, SUBSET (0 .. n))
  <2>1. IsFiniteSet(0 .. n)
    BY FS_Interval
  <2>2. FiniteSubsetsOf(0 .. n) = SUBSET (0 .. n)
    BY <2>1, FS_FiniteSubsetsOfFinite
  <2>3. IsWellFoundedOn(R, FiniteSubsetsOf(0 .. n))
    BY FS_StrictSubsetOrderingWellFounded
  <2> QED
    BY <2>2, <2>3
<1>2. T \subseteq SUBSET (0 .. n) /\ T # {}
  OBVIOUS
<1>3. PICK below \in T : \A b \in T : <<b, below>> \notin R
  <2> HIDE DEF T, R
  <2> QED
    BY <1>1, <1>2, WFMin
<1>4. PICK x \in S \cap 0 .. n : below = 0 .. x
  OBVIOUS
<1>5. ASSUME NEW y \in S, y < x PROVE FALSE
  <2>1. 0 .. y \in T
    BY <1>5
  <2>2. /\ 0 .. y \subseteq 0 .. x /\ x \in 0 .. x /\ x \notin 0 .. y
        /\ 0 .. x \subseteq 0 .. n
    BY <1>5
  <2>3. <<0 .. y, 0 .. x>> \in R
    BY <2>2 DEF StrictSubsetOrdering
  <2> QED
    BY <1>3, <1>4, <2>1, <2>3
<1>6. \A y \in S : x <= y
  BY <1>5
<1> QED
  BY <1>6

(* A bounded one has a greatest.                                              *)
LEMMA GreatestIn ==
  ASSUME NEW n \in Nat, NEW S, S \subseteq 1 .. n, S # {}
  PROVE  \E x \in S : \A y \in S : y <= x
<1> DEFINE T == {n - x : x \in S}
<1>1. T \subseteq Nat /\ T # {}
  OBVIOUS
<1>2. PICK t \in T : \A s \in T : t <= s
  BY <1>1, LeastIn
<1>3. PICK x \in S : t = n - x
  BY <1>2
<1>4. \A y \in S : n - x <= n - y
  BY <1>2, <1>3
<1>5. \A y \in S : y <= x
  BY <1>4
<1> QED
  BY <1>5

-----------------------------------------------------------------------------
(* Lists of indices.                                                          *)
LEMMA AddIndexFacts ==
  ASSUME NEW S, NEW list \in Lists(S), NEW i \in S
  PROVE  AddIndex(list, i) \in Lists(S) /\ ToSet(AddIndex(list, i)) = ToSet(list) \cup {i}
<1>1. list \in Seq(S) /\ Len(list) \in Nat /\ DOMAIN list = 1 .. Len(list) /\ IsInjective(list)
  BY DEF Lists
<1>2. CASE i \in ToSet(list)
  BY <1>2 DEF AddIndex
<1>3. CASE i \notin ToSet(list)
  <2> DEFINE new == Append(list, i)
  <2>1. AddIndex(list, i) = new
    BY <1>3 DEF AddIndex
  <2>2. /\ new \in Seq(S) /\ Len(new) = Len(list) + 1 /\ DOMAIN new = 1 .. Len(list) + 1
        /\ \A p \in 1 .. Len(list) + 1 : new[p] = IF p = Len(list) + 1 THEN i ELSE list[p]
    BY <1>1
  <2>3. \A p \in 1 .. Len(list) : list[p] # i
    BY <1>1, <1>3 DEF ToSet
  <2> HIDE DEF new
  <2>4. IsInjective(new)
    BY <1>1, <2>2, <2>3 DEF IsInjective
  <2>5. ToSet(new) = ToSet(list) \cup {i}
    <3>1. \A p \in 1 .. Len(list) : p \in 1 .. Len(list) + 1 /\ new[p] = list[p]
      BY <1>1, <2>2
    <3>2. Len(list) + 1 \in 1 .. Len(list) + 1 /\ new[Len(list) + 1] = i
      BY <1>1, <2>2
    <3>3. \A p \in 1 .. Len(list) + 1 : p = Len(list) + 1 \/ p \in 1 .. Len(list)
      BY <1>1
    <3>4. \A p \in 1 .. Len(list) : new[p] \in ToSet(new) /\ list[p] \in ToSet(list)
      BY <1>1, <2>2, <3>1 DEF ToSet
    <3>5. i \in ToSet(new)
      BY <2>2, <3>2 DEF ToSet
    <3>6. ASSUME NEW e \in ToSet(list) PROVE e \in ToSet(new)
      <4>1. PICK p \in 1 .. Len(list) : list[p] = e
        BY <1>1 DEF ToSet
      <4> QED
        BY <3>1, <3>4, <4>1
    <3>7. ASSUME NEW e \in ToSet(new) PROVE e \in ToSet(list) \cup {i}
      <4>1. PICK p \in 1 .. Len(list) + 1 : new[p] = e
        BY <2>2 DEF ToSet
      <4> QED
        BY <3>1, <3>2, <3>3, <3>4, <4>1
    <3> QED
      BY <3>5, <3>6, <3>7
  <2> QED
    BY <2>1, <2>2, <2>4, <2>5 DEF Lists
<1> QED
  BY <1>2, <1>3

LEMMA RemoveAtFacts ==
  ASSUME NEW S, NEW q \in Seq(S), NEW k \in 1 .. Len(q)
  PROVE  /\ RemoveAt(q, k) \in Seq(S) /\ Len(RemoveAt(q, k)) = Len(q) - 1
         /\ \A i \in 1 .. Len(q) - 1 : RemoveAt(q, k)[i] = IF i < k THEN q[i] ELSE q[i + 1]
<1> DEFINE a == SubSeq(q, 1, k - 1)
           b == SubSeq(q, k + 1, Len(q))
<1>1. Len(q) \in Nat
  OBVIOUS
<1>2. a \in Seq(S) /\ Len(a) = k - 1 /\ \A i \in 1 .. k - 1 : a[i] = q[i]
  BY <1>1
<1>3. /\ b \in Seq(S) /\ Len(b) = Len(q) - k
      /\ \A i \in 1 .. Len(q) - k : b[i] = q[k + i]
  BY <1>1
<1>4. RemoveAt(q, k) = a \o b
  BY DEF RemoveAt
<1> HIDE DEF a, b
<1>5. /\ a \o b \in Seq(S) /\ Len(a \o b) = Len(a) + Len(b)
      /\ \A i \in 1 .. Len(a) + Len(b) :
           (a \o b)[i] = IF i <= Len(a) THEN a[i] ELSE b[i - Len(a)]
  BY <1>2, <1>3, ConcatProperties
<1>6. Len(a) + Len(b) = Len(q) - 1
  BY <1>1, <1>2, <1>3
<1>7. ASSUME NEW i \in 1 .. Len(q) - 1
      PROVE  (a \o b)[i] = IF i < k THEN q[i] ELSE q[i + 1]
  <2>1. (a \o b)[i] = IF i <= Len(a) THEN a[i] ELSE b[i - Len(a)]
    BY <1>5, <1>6, <1>7
  <2>2. CASE i < k
    <3>1. i <= Len(a) /\ i \in 1 .. k - 1
      BY <1>2, <2>2
    <3> QED
      BY <1>2, <2>1, <2>2, <3>1
  <2>3. CASE ~(i < k)
    <3>1. ~(i <= Len(a))
      BY <1>1, <1>2, <2>3
    <3> DEFINE j == i - Len(a)
    <3>2. j \in 1 .. Len(q) - k /\ k + j = i + 1
      BY <1>1, <1>2, <2>3
    <3>3. (a \o b)[i] = b[j]
      BY <2>1, <3>1
    <3> HIDE DEF j
    <3> QED
      BY <1>3, <2>3, <3>2, <3>3
  <2> QED
    BY <2>2, <2>3
<1> QED
  BY <1>4, <1>5, <1>6, <1>7

LEMMA RemoveIndexFacts ==
  ASSUME NEW S, NEW list \in Lists(S), NEW i
  PROVE  RemoveIndex(list, i) \in Lists(S) /\ ToSet(RemoveIndex(list, i)) = ToSet(list) \ {i}
<1>1. list \in Seq(S) /\ Len(list) \in Nat /\ DOMAIN list = 1 .. Len(list) /\ IsInjective(list)
  BY DEF Lists
<1>2. CASE i \notin ToSet(list)
  BY <1>2 DEF RemoveIndex
<1>3. CASE i \in ToSet(list)
  <2> DEFINE k   == CHOOSE p \in DOMAIN list : list[p] = i
             new == RemoveAt(list, k)
             f(p) == IF p < k THEN p ELSE p + 1
  <2>1. \E p \in DOMAIN list : list[p] = i
    BY <1>3 DEF ToSet
  <2>2. k \in 1 .. Len(list) /\ list[k] = i
    BY <1>1, <2>1
  <2>3. RemoveIndex(list, i) = new
    BY <1>3 DEF RemoveIndex
  <2> HIDE DEF k
  <2>31. /\ new \in Seq(S) /\ Len(new) = Len(list) - 1
        /\ \A p \in 1 .. Len(list) - 1 : new[p] = IF p < k THEN list[p] ELSE list[p + 1]
    BY <1>1, <2>2, RemoveAtFacts
  <2> HIDE DEF new
  <2>32. DOMAIN new = 1 .. Len(list) - 1
    BY <2>31
  <2>4. /\ new \in Seq(S) /\ Len(new) = Len(list) - 1 /\ DOMAIN new = 1 .. Len(list) - 1
        /\ \A p \in 1 .. Len(list) - 1 : new[p] = list[f(p)]
    BY <2>31, <2>32
  <2>5. \A p \in 1 .. Len(list) - 1 : f(p) \in 1 .. Len(list) /\ f(p) # k
    BY <1>1, <2>2
  <2>6. \A p, r \in 1 .. Len(list) - 1 : f(p) = f(r) => p = r
    BY <1>1, <2>2
  <2>7. ASSUME NEW r \in 1 .. Len(list), r # k PROVE \E p \in 1 .. Len(list) - 1 : f(p) = r
    <3>1. CASE r < k
      BY <1>1, <2>2, <3>1
    <3>2. CASE r > k
      <4>1. r - 1 \in 1 .. Len(list) - 1 /\ f(r - 1) = r
        BY <1>1, <2>2, <3>2
      <4> QED
        BY <4>1
    <3> QED
      BY <1>1, <2>2, <2>7, <3>1, <3>2
  <2> HIDE DEF f
  <2>8. IsInjective(new)
    <3>1. \A p, r \in 1 .. Len(list) : list[p] = list[r] => p = r
      BY <1>1 DEF IsInjective
    <3>2. \A p, r \in 1 .. Len(list) - 1 : new[p] = new[r] => p = r
      BY <2>4, <2>5, <2>6, <3>1
    <3> QED
      BY <2>4, <3>2 DEF IsInjective
  <2>9. ToSet(new) = ToSet(list) \ {i}
    <3>1. \A p \in 1 .. Len(list) : p # k => list[p] # i
      BY <1>1, <2>2 DEF IsInjective
    <3>2. ASSUME NEW e \in ToSet(new) PROVE e \in ToSet(list) \ {i}
      <4>1. PICK p \in 1 .. Len(list) - 1 : new[p] = e
        BY <2>4 DEF ToSet
      <4>2. f(p) \in 1 .. Len(list) /\ f(p) # k /\ list[f(p)] = e
        BY <2>4, <2>5, <4>1
      <4> QED
        BY <1>1, <3>1, <4>2 DEF ToSet
    <3>3. ASSUME NEW e \in ToSet(list) \ {i} PROVE e \in ToSet(new)
      <4>1. PICK r \in 1 .. Len(list) : list[r] = e
        BY <1>1 DEF ToSet
      <4>2. PICK p \in 1 .. Len(list) - 1 : f(p) = r
        BY <2>2, <2>7, <4>1
      <4> QED
        BY <2>4, <4>1, <4>2 DEF ToSet
    <3> QED
      BY <3>2, <3>3
  <2> QED
    BY <2>3, <2>4, <2>8, <2>9 DEF Lists
<1> QED
  BY <1>2, <1>3

LEMMA TailFacts ==
  ASSUME NEW S, NEW s \in Seq(S), s # <<>>
  PROVE  /\ Tail(s) \in Seq(S) /\ s[1] \in S
         /\ ToSet(s) = {s[1]} \cup ToSet(Tail(s))
<1>1. /\ Len(s) \in Nat /\ Len(s) >= 1 /\ DOMAIN s = 1 .. Len(s)
      /\ Tail(s) \in Seq(S) /\ Len(Tail(s)) = Len(s) - 1 /\ DOMAIN Tail(s) = 1 .. Len(s) - 1
      /\ \A p \in 1 .. Len(s) - 1 : Tail(s)[p] = s[p + 1]
  OBVIOUS
<1>2. ASSUME NEW e \in ToSet(s) PROVE e = s[1] \/ e \in ToSet(Tail(s))
  <2>1. PICK p \in 1 .. Len(s) : s[p] = e
    BY <1>1 DEF ToSet
  <2>2. CASE p # 1
    <3>1. p - 1 \in 1 .. Len(s) - 1 /\ Tail(s)[p - 1] = e
      BY <1>1, <2>1, <2>2
    <3> QED
      BY <1>1, <3>1 DEF ToSet
  <2> QED
    BY <2>1, <2>2
<1>3. ASSUME NEW e \in ToSet(Tail(s)) PROVE e \in ToSet(s)
  <2>1. PICK p \in 1 .. Len(s) - 1 : Tail(s)[p] = e
    BY <1>1 DEF ToSet
  <2>2. p + 1 \in 1 .. Len(s) /\ s[p + 1] = e
    BY <1>1, <2>1
  <2> QED
    BY <1>1, <2>2 DEF ToSet
<1>4. 1 \in 1 .. Len(s) /\ s[1] \in ToSet(s) /\ s[1] \in S
  BY <1>1 DEF ToSet
<1> QED
  BY <1>1, <1>2, <1>3, <1>4

LEMMA ConcatFacts ==
  ASSUME NEW S, NEW a \in Seq(S), NEW b \in Seq(S)
  PROVE  a \o b \in Seq(S) /\ ToSet(a) \subseteq ToSet(a \o b) /\ ToSet(b) \subseteq ToSet(a \o b)
<1>1. /\ a \o b \in Seq(S) /\ Len(a \o b) = Len(a) + Len(b)
      /\ \A i \in 1 .. Len(a) + Len(b) :
           (a \o b)[i] = IF i <= Len(a) THEN a[i] ELSE b[i - Len(a)]
  BY ConcatProperties
<1>2. /\ Len(a) \in Nat /\ Len(b) \in Nat /\ DOMAIN a = 1 .. Len(a) /\ DOMAIN b = 1 .. Len(b)
      /\ DOMAIN (a \o b) = 1 .. Len(a) + Len(b)
  BY <1>1
<1> DEFINE ab == a \o b
<1>3. /\ DOMAIN ab = 1 .. Len(a) + Len(b)
      /\ \A i \in 1 .. Len(a) + Len(b) : ab[i] = IF i <= Len(a) THEN a[i] ELSE b[i - Len(a)]
  BY <1>1, <1>2
<1> HIDE DEF ab
<1>4. ASSUME NEW e \in ToSet(a) PROVE e \in ToSet(ab)
  <2>1. PICK p \in 1 .. Len(a) : a[p] = e
    BY <1>2 DEF ToSet
  <2>2. p \in 1 .. Len(a) + Len(b) /\ ab[p] = e
    BY <1>2, <1>3, <2>1
  <2> QED
    BY <1>3, <2>2 DEF ToSet
<1>5. ASSUME NEW e \in ToSet(b) PROVE e \in ToSet(ab)
  <2>1. PICK p \in 1 .. Len(b) : b[p] = e
    BY <1>2 DEF ToSet
  <2> DEFINE k == Len(a) + p
  <2>2. k \in 1 .. Len(a) + Len(b) /\ ~(k <= Len(a)) /\ k - Len(a) = p
    BY <1>2, <2>1
  <2> HIDE DEF k
  <2>3. ab[k] = e
    BY <1>3, <2>1, <2>2
  <2> QED
    BY <1>3, <2>2, <2>3 DEF ToSet
<1> QED
  BY <1>1, <1>4, <1>5 DEF ab

LEMMA CollectionFacts ==
  ASSUME NEW what \in {"user", "cred", "schedule"}, NEW S, S \subseteq Users \cup Creds \cup Schedules,
         NEW list \in Seq(S)
  PROVE  /\ Collection(what, list) \in Seq(Items)
         /\ \A i \in ToSet(list) : <<what, i>> \in ToSet(Collection(what, list))
         /\ list # <<>> => <<what, 0>> \in ToSet(Collection(what, list))
<1>1. CASE list = <<>>
  <2>1. Collection(what, list) = <<>> /\ ToSet(list) = {}
    BY <1>1 DEF Collection, ToSet
  <2>2. <<>> \in Seq(Items) /\ \A i : i \notin {}
    OBVIOUS
  <2> QED
    BY <1>1, <2>1, <2>2, Zenon
<1>2. CASE list # <<>>
  <2> DEFINE items == [p \in DOMAIN list |-> <<what, list[p]>>]
             last  == <<<<what, 0>>>>
  <2>1. Collection(what, list) = items \o last
    BY <1>2 DEF Collection
  <2>2. Len(list) \in Nat /\ DOMAIN list = 1 .. Len(list) /\ \A p \in 1 .. Len(list) : list[p] \in S
    OBVIOUS
  <2>3. \A p \in 1 .. Len(list) : <<what, list[p]>> \in Items
    BY <2>2 DEF Items
  <2>4. items \in Seq(Items) /\ DOMAIN items = 1 .. Len(list)
        /\ \A p \in 1 .. Len(list) : items[p] = <<what, list[p]>>
    BY <2>2, <2>3
  <2>5. last \in Seq(Items) /\ DOMAIN last = 1 .. 1 /\ last[1] = <<what, 0>>
    BY DEF Items
  <2> HIDE DEF items, last
  <2>6. \A i \in ToSet(list) : <<what, i>> \in ToSet(items)
    BY <2>2, <2>4 DEF ToSet
  <2>7. <<what, 0>> \in ToSet(last)
    BY <2>5 DEF ToSet
  <2> QED
    BY <2>1, <2>4, <2>5, <2>6, <2>7, ConcatFacts
<1> QED
  BY <1>1, <1>2

-----------------------------------------------------------------------------
(* What the storage loads.                                                    *)

LEMMA NoneIsNothing ==
  /\ None \notin UserSet /\ None \notin CredSet /\ None # TRUE
  /\ None \notin Lists(Users) /\ None \notin Lists(Creds) /\ None \notin Lists(Schedules)
<1>1. Users \subseteq Users \cup Creds \cup Schedules /\ Creds \subseteq Users \cup Creds \cup Schedules
      /\ Schedules \subseteq Users \cup Creds \cup Schedules
  OBVIOUS
<1>2. /\ Seq(Users) \subseteq Seq(Users \cup Creds \cup Schedules)
      /\ Seq(Creds) \subseteq Seq(Users \cup Creds \cup Schedules)
      /\ Seq(Schedules) \subseteq Seq(Users \cup Creds \cup Schedules)
  OBVIOUS
<1>3. None \notin UserSet /\ None \notin CredSet /\ None # TRUE
  BY NoneAssumption DEF UserSet, CredSet
<1>4. None \notin Lists(Users) /\ None \notin Lists(Creds) /\ None \notin Lists(Schedules)
  BY <1>2, NoneAssumption DEF Lists
<1> QED
  BY <1>3, <1>4

LEMMA EmptyList ==
  /\ \A S : <<>> \in Lists(S)
  /\ ToSet(<<>>) = {} /\ Listed(None) = <<>>
BY DEF Lists, IsInjective, ToSet, Listed

LEMMA ListedFacts ==
  ASSUME NEW S, NEW list \in Lists(S) \cup {None}
  PROVE  /\ Listed(list) \in Lists(S) /\ ToSet(Listed(list)) \subseteq S
<1>1. Listed(list) \in Lists(S)
  BY EmptyList DEF Listed
<1>2. \A l \in Lists(S) : ToSet(l) \subseteq S
  BY DEF Lists, ToSet
<1> QED
  BY <1>1, <1>2

(* A credential is loaded as the one at or before it in the list that is the  *)
(* last to be stored.                                                         *)
LEMMA LoadFacts ==
  ASSUME sCred \in [Creds -> CredSet \cup {None}], NEW list, list = Listed(sCredIdx),
         sCredIdx \in Lists(Creds) \cup {None}
  PROVE  /\ \A unread : LoadCredentials(unread) \in [Creds -> CredSet]
         /\ \A c \in Creds \ ToSet(list) : LoadCredentials({})[c] = NoCred
         /\ \A p, q \in DOMAIN list :
               q <= p /\ sCred[list[q]] # None /\ (\A r \in q + 1 .. p : sCred[list[r]] = None)
               => LoadCredentials({})[list[p]] = sCred[list[q]]
         /\ \A p \in DOMAIN list : LoadCredentials({})[list[p]] # NoCred =>
               \E q \in DOMAIN list : /\ q <= p /\ sCred[list[q]] # None
                                      /\ \A r \in q + 1 .. p : sCred[list[r]] = None
<1> DEFINE Read(p, unread) == sCred[list[p]] # None /\ list[p] \notin unread
           Before(c, unread) == {p \in DOMAIN list : Read(p, unread) /\ \E q \in p..Len(list) : list[q] = c}
           Latest(c, unread) == CHOOSE p \in Before(c, unread) : \A q \in Before(c, unread) : q <= p
<1>1. list \in Seq(Creds) /\ Len(list) \in Nat /\ DOMAIN list = 1 .. Len(list) /\ IsInjective(list)
      /\ \A p \in 1 .. Len(list) : list[p] \in Creds /\ list[p] \in ToSet(list)
  BY ListedFacts DEF Lists, ToSet
<1>2. \A unread : LoadCredentials(unread) = [c \in Creds |->
          IF c \notin ToSet(list) \/ Before(c, unread) = {} THEN NoCred ELSE sCred[list[Latest(c, unread)]]]
  BY DEF LoadCredentials
<1>3. \A c, unread : Before(c, unread) \subseteq 1 .. Len(list)
  BY <1>1
<1>4. \A c, unread : Before(c, unread) # {} =>
          Latest(c, unread) \in Before(c, unread) /\ \A q \in Before(c, unread) : q <= Latest(c, unread)
  <2> SUFFICES ASSUME NEW c, NEW unread, Before(c, unread) # {}
               PROVE  \E p \in Before(c, unread) : \A q \in Before(c, unread) : q <= p
    OBVIOUS
  <2> HIDE DEF Before
  <2> QED
    BY <1>1, <1>3, GreatestIn
<1>5. NoCred \in CredSet
  BY DEF NoCred, CredSet
<1>6. ASSUME NEW unread PROVE LoadCredentials(unread) \in [Creds -> CredSet]
  <2>1. ASSUME NEW c \in Creds, Before(c, unread) # {}
        PROVE  sCred[list[Latest(c, unread)]] \in CredSet
    <3>1. Latest(c, unread) \in Before(c, unread)
      BY <1>4, <2>1
    <3> DEFINE k == Latest(c, unread)
    <3>2. k \in 1 .. Len(list) /\ sCred[list[k]] # None
      BY <1>1, <3>1
    <3> HIDE DEF k
    <3>3. list[k] \in Creds
      BY <1>1, <3>2
    <3> QED
      BY <3>2, <3>3 DEF k
  <2> HIDE DEF Before, Latest
  <2> QED
    BY <1>2, <1>5, <2>1
<1>7. ASSUME NEW p \in 1 .. Len(list)
      PROVE  \A q : q \in Before(list[p], {}) <=> q \in 1 .. p /\ sCred[list[q]] # None
  <2>1. ASSUME NEW q \in Before(list[p], {}) PROVE q \in 1 .. p /\ sCred[list[q]] # None
    <3>1. q \in 1 .. Len(list) /\ sCred[list[q]] # None
      BY <1>1
    <3>2. PICK r \in q .. Len(list) : list[r] = list[p]
      OBVIOUS
    <3>3. r \in 1 .. Len(list) /\ q <= r
      BY <1>1, <3>1
    <3>4. r = p
      BY <1>1, <3>2, <3>3 DEF IsInjective
    <3> QED
      BY <1>1, <3>1, <3>3, <3>4
  <2>2. ASSUME NEW q \in 1 .. p, sCred[list[q]] # None PROVE q \in Before(list[p], {})
    <3>1. q \in 1 .. Len(list) /\ p \in q .. Len(list)
      BY <1>1
    <3> QED
      BY <1>1, <2>2, <3>1
  <2> HIDE DEF Before
  <2> QED
    BY <2>1, <2>2
<1> HIDE DEF Before, Latest
<1>8. ASSUME NEW p \in DOMAIN list, NEW q \in DOMAIN list, q <= p, sCred[list[q]] # None,
             \A r \in q + 1 .. p : sCred[list[r]] = None
      PROVE  LoadCredentials({})[list[p]] = sCred[list[q]]
  <2>1. p \in 1 .. Len(list) /\ q \in 1 .. p
    BY <1>1, <1>8
  <2>2. q \in Before(list[p], {})
    BY <1>7, <1>8, <2>1
  <2> DEFINE k == Latest(list[p], {})
  <2>3. k \in Before(list[p], {}) /\ q <= k
    BY <1>4, <2>2
  <2> HIDE DEF k
  <2>4. k \in 1 .. p /\ sCred[list[k]] # None
    BY <1>7, <2>1, <2>3
  <2>5. k = q
    <3>1. k \notin q + 1 .. p
      BY <1>8, <2>4
    <3> QED
      BY <2>1, <2>3, <2>4, <3>1
  <2> QED
    BY <1>1, <1>2, <2>1, <2>2, <2>5 DEF k
<1>9. ASSUME NEW p \in DOMAIN list, LoadCredentials({})[list[p]] # NoCred
      PROVE  \E q \in DOMAIN list : /\ q <= p /\ sCred[list[q]] # None
                                    /\ \A r \in q + 1 .. p : sCred[list[r]] = None
  <2>1. Before(list[p], {}) # {}
    BY <1>1, <1>2, <1>9
  <2> DEFINE k == Latest(list[p], {})
  <2>2. k \in Before(list[p], {}) /\ \A q \in Before(list[p], {}) : q <= k
    BY <1>4, <2>1
  <2> HIDE DEF k
  <2>3. p \in 1 .. Len(list) /\ k \in 1 .. p /\ sCred[list[k]] # None
    BY <1>1, <1>7, <2>2
  <2>4. ASSUME NEW r \in k + 1 .. p, sCred[list[r]] # None PROVE FALSE
    <3>1. r \in 1 .. p /\ ~(r <= k)
      BY <2>3
    <3> QED
      BY <1>7, <2>2, <2>3, <2>4, <3>1
  <2>5. k \in DOMAIN list /\ k <= p
    BY <1>1, <2>3
  <2> QED
    BY <2>3, <2>4, <2>5
<1>10. \A c \in Creds \ ToSet(list) : LoadCredentials({})[c] = NoCred
  BY <1>2
<1> QED
  BY <1>6, <1>8, <1>9, <1>10

(* In particular a credential is loaded as it is stored, if it is.            *)
LEMMA LoadsStored ==
  ASSUME sCred \in [Creds -> CredSet \cup {None}], sCredIdx \in Lists(Creds) \cup {None}
  PROVE  /\ \A c \in ToSet(Listed(sCredIdx)) : sCred[c] # None => LoadCredentials({})[c] = sCred[c]
         /\ (\A c \in ToSet(Listed(sCredIdx)) : sCred[c] # None)
            => LoadCredentials({}) = [c \in Creds |-> IF c \in ToSet(Listed(sCredIdx)) THEN sCred[c] ELSE NoCred]
<1> DEFINE list == Listed(sCredIdx)
<1>1. list \in Seq(Creds) /\ DOMAIN list = 1 .. Len(list) /\ Len(list) \in Nat
  BY ListedFacts DEF Lists
<1>2. ASSUME NEW c \in ToSet(list), sCred[c] # None PROVE LoadCredentials({})[c] = sCred[c]
  <2>1. PICK p \in DOMAIN list : list[p] = c
    BY DEF ToSet
  <2>2. p <= p /\ \A r \in p + 1 .. p : sCred[list[r]] = None
    BY <1>1
  <2> QED
    BY <1>2, <2>1, <2>2, LoadFacts
<1>3. /\ LoadCredentials({}) \in [Creds -> CredSet]
      /\ \A c \in Creds \ ToSet(list) : LoadCredentials({})[c] = NoCred
  BY LoadFacts
<1> HIDE DEF list
<1>4. ASSUME \A c \in ToSet(list) : sCred[c] # None
      PROVE  LoadCredentials({}) = [c \in Creds |-> IF c \in ToSet(list) THEN sCred[c] ELSE NoCred]
  BY <1>2, <1>3, <1>4
<1> QED
  BY <1>2, <1>4 DEF list

-----------------------------------------------------------------------------
(* The steps.                                                                 *)

LEMMA OwnerFacts ==
  ASSUME TypeInv, NEW c
  PROVE  /\ Owner(c) \in Users \cup {0} /\ 0 \notin Users
         /\ Owner(c) # 0 => user[Owner(c)].status # "available" /\ c \in user[Owner(c)].creds
         /\ Owner(c) = 0 => \A u \in Users : c \in user[u].creds => user[u].status = "available"
         /\ \A u \in Users : user[u].status # "available" /\ c \in user[u].creds => Owner(c) <= u
<1> DEFINE Of == {u \in Users : user[u].status # "available" /\ c \in user[u].creds}
<1>1. Of \subseteq Nat /\ 0 \notin Users
  BY IndicesAssumption
<1>2. Owner(c) = IF Of = {} THEN 0 ELSE CHOOSE u \in Of : \A v \in Of : u <= v
  BY DEF Owner
<1>3. Of # {} => Owner(c) \in Of /\ \A u \in Of : Owner(c) <= u
  <2> HIDE DEF Of
  <2> QED
    BY <1>1, <1>2, LeastIn
<1> QED
  BY <1>1, <1>2, <1>3

(* What failed is not forgotten.                                              *)
LEMMA UpsetGrows == [Next]_vars => upset \subseteq upset'
BY DEF Next, AddCredential, ModifyCredential, ClearCredential, SetUserStatus, SetUser, StoreUserIndexes,
       SetCredential, StoreCredentialIndexes, SetSchedule, ClearSchedule, StoreScheduleIndexes,
       FactoryReset, RemoveNext, InitializeAll, Restart, Command, NoFault, Fault, vars

LEMMA OpType ==
  /\ NoUser \in UserSet /\ NoCred \in CredSet /\ NoOp \in OpSet
  /\ NoUser.status = "available" /\ NoUser.creds = {}
  /\ NoCred.status = "available" /\ NoCred.secret = Empty
  /\ NoOp.at = "idle" /\ NoOp.then = "idle" /\ NoOp.todo = <<>> /\ NoOp.clear = FALSE
  /\ NoOp.u = 0 /\ NoOp.c = 0 /\ NoOp.secret = Empty
<1>1. NoUser \in UserSet /\ NoUser.status = "available" /\ NoUser.creds = {}
  BY DEF NoUser, UserSet
<1>2. NoCred \in CredSet /\ NoCred.status = "available" /\ NoCred.secret = Empty
  BY DEF NoCred, CredSet
<1>3. <<>> \in Seq(Items)
  OBVIOUS
<1>4. /\ NoOp \in OpSet
      /\ NoOp.at = "idle" /\ NoOp.then = "idle" /\ NoOp.todo = <<>> /\ NoOp.clear = FALSE
      /\ NoOp.u = 0 /\ NoOp.c = 0 /\ NoOp.secret = Empty
  BY <1>1, <1>3 DEF NoOp, OpSet
<1> QED
  BY <1>1, <1>2, <1>4

LEMMA OpStep ==
  ASSUME OpInv, TypeInv, [Next]_vars
  PROVE  OpInv'
<1> USE DEF OpInv, At
<1>1. ASSUME NEW u \in Users, NEW c \in Creds, NEW x \in Secrets, AddCredential(u, c, x)
      PROVE  OpInv'
  <2>1. op' = [at |-> "setUser", u |-> u, c |-> c, user |-> [status |-> "enabled", creds |-> user[u].creds \cup {c}], secret |-> x,
               clear |-> FALSE, then |-> "setCred", todo |-> <<>>]
    BY <1>1 DEF AddCredential, Call, NoOp
  <2>2. [status |-> "enabled", creds |-> user[u].creds \cup {c}] \in UserSet
    BY DEF TypeInv, UserSet
  <2>3. op' \in OpSet
    BY <2>1, <2>2, OpType DEF OpSet
  <2> QED
    BY <2>1, <2>3
<1>2. ASSUME NEW c \in Creds, NEW x \in Secrets, ModifyCredential(c, x)
      PROVE  OpInv'
  <2>1. op' = [at |-> "setCred", u |-> 0, c |-> c, user |-> NoUser, secret |-> x,
               clear |-> FALSE, then |-> "idle", todo |-> <<>>]
    BY <1>2 DEF ModifyCredential, Call, NoOp
  <2>2. c \in Creds \cup Schedules \cup {0} /\ x \in Secrets \cup {Empty}
    OBVIOUS
  <2>3. op' \in OpSet
    BY <2>1, <2>2, OpType DEF OpSet
  <2> QED
    BY <2>1, <2>3
<1>3. ASSUME NEW c \in Creds, ClearCredential(c)
      PROVE  OpInv'
  <2> DEFINE rest == user[Owner(c)].creds \ {c}
             new  == IF rest = {} THEN NoUser ELSE [user[Owner(c)] EXCEPT !.creds = rest]
  <2>1. op' = [at |-> "setCred", u |-> Owner(c), c |-> c, user |-> new, secret |-> Empty,
               clear |-> TRUE, then |-> "setUser", todo |-> <<>>]
    BY <1>3 DEF ClearCredential, Call, NoOp
  <2>2. Owner(c) \in Users /\ new \in UserSet
    BY <1>3, OwnerFacts, OpType DEF ClearCredential, TypeInv, UserSet
  <2> HIDE DEF new
  <2>3. op' \in OpSet
    BY <2>1, <2>2, OpType DEF OpSet
  <2> QED
    BY <2>1, <2>2, <2>3
<1>4. ASSUME NEW u \in Users, NEW status \in {"enabled", "disabled"}, SetUserStatus(u, status)
      PROVE  OpInv'
  <2> DEFINE new == [user[u] EXCEPT !.status = status]
  <2>1. op' = [at |-> "setUser", u |-> u, c |-> 0, user |-> new, secret |-> Empty,
               clear |-> FALSE, then |-> "idle", todo |-> <<>>]
    BY <1>4 DEF SetUserStatus, Call, NoOp
  <2>2. new \in UserSet
    BY DEF TypeInv, UserSet
  <2> HIDE DEF new
  <2>3. op' \in OpSet
    BY <2>1, <2>2, OpType DEF OpSet
  <2> QED
    BY <2>1, <2>3
<1>5. CASE SetUser
  BY <1>5, OpType DEF SetUser, Go, OpSet
<1>6. CASE StoreUserIndexes
  BY <1>6, OpType DEF StoreUserIndexes, Continue, OpSet
<1>7. CASE SetCredential
  <2>1. \/ op' = [op EXCEPT !.at = "credIdx"]
        \/ op.then = "idle" /\ op' = NoOp
        \/ op.then # "idle" /\ op' = [op EXCEPT !.at = op.then, !.then = "idle"]
    BY <1>7 DEF SetCredential, Go, Continue
  <2>2. op' \in OpSet
    BY <2>1, OpType DEF OpSet
  <2> QED
    BY <1>7, <2>1, <2>2, OpType DEF SetCredential, OpSet
<1>8. CASE StoreCredentialIndexes
  BY <1>8, OpType DEF StoreCredentialIndexes, Continue, OpSet
<1>9. ASSUME NEW i \in Schedules, SetSchedule(i)
      PROVE  OpInv'
  <2> DEFINE new == [at |-> "schedIdx", u |-> 0, c |-> i, user |-> NoUser, secret |-> Empty,
                    clear |-> FALSE, then |-> "idle", todo |-> <<>>]
  <2>1. op' = op \/ op' = new
    BY <1>9 DEF SetSchedule, Call, NoOp
  <2>2. new \in OpSet /\ new.at = "schedIdx" /\ new.then = "idle" /\ new.c = i
    BY OpType DEF OpSet
  <2> HIDE DEF new
  <2> QED
    BY <2>1, <2>2
<1>10. ASSUME NEW i \in Schedules, ClearSchedule(i)
      PROVE  OpInv'
  <2> DEFINE new == [at |-> "schedIdx", u |-> 0, c |-> i, user |-> NoUser, secret |-> Empty,
                    clear |-> TRUE, then |-> "idle", todo |-> <<>>]
  <2>1. op' = op \/ op' = new
    BY <1>10 DEF ClearSchedule, Call, NoOp
  <2>2. new \in OpSet /\ new.at = "schedIdx" /\ new.then = "idle" /\ new.c = i
    BY OpType DEF OpSet
  <2> HIDE DEF new
  <2> QED
    BY <2>1, <2>2
<1>11. CASE StoreScheduleIndexes
  BY <1>11, OpType DEF StoreScheduleIndexes, Go
<1>12. CASE FactoryReset
  <2> DEFINE todo == Collection("user", userIdx) \o Collection("cred", credIdx)
                         \o Collection("schedule", schedIdx)
  <2>1. todo \in Seq(Items)
    BY CollectionFacts, ConcatFacts DEF TypeInv, Lists
  <2>2. op' = [[NoOp EXCEPT !.todo = todo] EXCEPT !.at = "remove"]
    BY <1>12 DEF FactoryReset, Call
  <2> HIDE DEF todo
  <2> QED
    BY <2>1, <2>2, OpType DEF OpSet
<1>13. CASE RemoveNext
  <2>1. Tail(op.todo) \in Seq(Items)
    BY <1>13, TailFacts DEF RemoveNext, OpSet
  <2> QED
    BY <1>13, <2>1 DEF RemoveNext, OpSet
<1>14. CASE InitializeAll
  BY <1>14 DEF InitializeAll, Go, OpSet
<1>15. CASE Restart
  BY <1>15, OpType DEF Restart
<1>16. CASE UNCHANGED vars
  BY <1>16 DEF vars
<1> QED
  BY <1>1, <1>2, <1>3, <1>4, <1>5, <1>6, <1>7, <1>8, <1>9, <1>10, <1>11, <1>12, <1>13, <1>14, <1>15, <1>16 DEF Next

LEMMA TypeStep ==
  ASSUME OpInv, TypeInv, [Next]_vars
  PROVE  TypeInv'
<1> USE DEF TypeInv
<1>1. ASSUME NEW u \in Users, NEW c \in Creds, NEW x \in Secrets, AddCredential(u, c, x)
      PROVE  TypeInv'
  BY <1>1 DEF AddCredential, Command, NoFault, ram, store
<1>2. ASSUME NEW c \in Creds, NEW x \in Secrets, ModifyCredential(c, x)
      PROVE  TypeInv'
  BY <1>2, OwnerFacts DEF ModifyCredential, Command, NoFault, ram, store
<1>3. ASSUME NEW c \in Creds, ClearCredential(c)
      PROVE  TypeInv'
  BY <1>3 DEF ClearCredential, Command, NoFault, ram, store, history
<1>4. ASSUME NEW u \in Users, NEW status \in {"enabled", "disabled"}, SetUserStatus(u, status)
      PROVE  TypeInv'
  BY <1>4 DEF SetUserStatus, Command, NoFault, ram, store, history
<1>5. CASE SetUser
  <2>1. op.u \in Users /\ op.user \in UserSet
    BY <1>5 DEF SetUser, OpInv, OpSet
  <2>2. AddIndex(userIdx, op.u) \in Lists(Users)
    BY <2>1, AddIndexFacts
  <2>3. faults' \in 0 .. MaxFaults
    BY <1>5, FaultsAssumption DEF SetUser, NoFault, Fault
  <2> QED
    BY <1>5, <2>1, <2>2, <2>3 DEF SetUser, history
<1>6. CASE StoreUserIndexes
  <2>1. faults' \in 0 .. MaxFaults
    BY <1>6, FaultsAssumption DEF StoreUserIndexes, NoFault, Fault
  <2> QED
    BY <1>6, <2>1 DEF StoreUserIndexes, ram, history
<1>7. CASE SetCredential
  <2> DEFINE kept == IF Owner(op.c) = 0 THEN cred[op.c].secret ELSE Empty
             new  == IF op.clear THEN [status |-> "available", secret |-> kept]
                                 ELSE [status |-> "occupied", secret |-> op.secret]
  <2>1. op.c \in Creds /\ op.secret \in Secrets \cup {Empty}
    BY <1>7 DEF SetCredential, OpInv, OpSet
  <2>2. new \in CredSet
    BY <2>1 DEF CredSet
  <2>3. /\ cred' = [cred EXCEPT ![op.c] = new]
        /\ sCred' = [sCred EXCEPT ![op.c] = new] \/ sCred' = sCred
        /\ credIdx' = AddIndex(credIdx, op.c)
    BY <1>7 DEF SetCredential
  <2> HIDE DEF new
  <2>4. AddIndex(credIdx, op.c) \in Lists(Creds)
    BY <2>1, AddIndexFacts
  <2>5. faults' \in 0 .. MaxFaults
    BY <1>7, FaultsAssumption DEF SetCredential, NoFault, Fault
  <2>6. cred' \in [Creds -> CredSet] /\ sCred' \in [Creds -> CredSet \cup {None}]
    BY <2>1, <2>2, <2>3
  <2> QED
    BY <1>7, <2>3, <2>4, <2>5, <2>6 DEF SetCredential, history
<1>8. CASE StoreCredentialIndexes
  <2>1. faults' \in 0 .. MaxFaults
    BY <1>8, FaultsAssumption DEF StoreCredentialIndexes, NoFault, Fault
  <2> QED
    BY <1>8, <2>1 DEF StoreCredentialIndexes, ram, history
<1>9. ASSUME NEW i \in Schedules, SetSchedule(i)
      PROVE  TypeInv'
  <2>1. AddIndex(schedIdx, i) \in Lists(Schedules)
    BY AddIndexFacts
  <2>2. faults' \in 0 .. MaxFaults
    BY <1>9, FaultsAssumption DEF SetSchedule, NoFault, Fault
  <2> QED
    BY <1>9, <2>1, <2>2 DEF SetSchedule
<1>10. ASSUME NEW i \in Schedules, ClearSchedule(i)
       PROVE  TypeInv'
  <2>1. RemoveIndex(schedIdx, i) \in Lists(Schedules)
    BY RemoveIndexFacts
  <2>2. faults' \in 0 .. MaxFaults
    BY <1>10, FaultsAssumption DEF ClearSchedule, NoFault, Fault
  <2> QED
    BY <1>10, <2>1, <2>2 DEF ClearSchedule
<1>11. CASE StoreScheduleIndexes
  <2>1. faults' \in 0 .. MaxFaults
    BY <1>11, FaultsAssumption DEF StoreScheduleIndexes, NoFault, Fault
  <2>2. cleared' \subseteq Schedules
    BY <1>11 DEF StoreScheduleIndexes, OpInv, At
  <2>3. sSchedIdx' \in Lists(Schedules) \cup {None}
    BY <1>11 DEF StoreScheduleIndexes
  <2> QED
    BY <1>11, <2>1, <2>2, <2>3 DEF StoreScheduleIndexes, ram
<1>12. CASE FactoryReset
  BY <1>12 DEF FactoryReset, Command, NoFault, ram, store, history
<1>13. CASE RemoveNext
  <2>1. faults' \in 0 .. MaxFaults
    BY <1>13, FaultsAssumption DEF RemoveNext, NoFault, Fault
  <2>2. \/ UNCHANGED store
        \/ Without(op.todo[1][1], op.todo[1][2])
    BY <1>13 DEF RemoveNext
  <2>3. /\ sUser' \in [Users -> UserSet \cup {None}] /\ sUserIdx' \in Lists(Users) \cup {None}
        /\ sCred' \in [Creds -> CredSet \cup {None}] /\ sCredIdx' \in Lists(Creds) \cup {None}
        /\ sSched' \in [Schedules -> {TRUE, None}] /\ sSchedIdx' \in Lists(Schedules) \cup {None}
    BY <2>2 DEF Without, store
  <2> QED
    BY <1>13, <2>1, <2>3 DEF RemoveNext, ram, history
<1>14. CASE InitializeAll
  BY <1>14, OpType DEF InitializeAll, NoFault, store, history
<1>15. CASE Restart
  <2>1. faults' \in 0 .. MaxFaults
    BY <1>15, FaultsAssumption DEF Restart
  <2>2. /\ Listed(sUserIdx) \in Lists(Users) /\ Listed(sCredIdx) \in Lists(Creds)
        /\ Listed(sSchedIdx) \in Lists(Schedules)
    BY ListedFacts
  <2>3. cred' \in [Creds -> CredSet]
    BY <1>15, LoadFacts DEF Restart
  <2>4. \A u \in Users : LoadUser(u) \in UserSet
    BY OpType DEF LoadUser
  <2>5. \A i \in Schedules : LoadSchedule(i) \in BOOLEAN
    BY DEF LoadSchedule
  <2> QED
    BY <1>15, <2>1, <2>2, <2>3, <2>4, <2>5 DEF Restart, store, history
<1>16. CASE UNCHANGED vars
  BY <1>16 DEF vars, ram, store, history
<1> QED
  BY <1>1, <1>2, <1>3, <1>4, <1>5, <1>6, <1>7, <1>8, <1>9, <1>10, <1>11, <1>12, <1>13, <1>14, <1>15, <1>16 DEF Next

(* The commands of users and credentials leave the schedules alone.           *)
LEMMA SchedulesAlone ==
  ASSUME OpInv, [Next]_vars
  PROVE  \/ /\ UNCHANGED <<sched, schedIdx, sSched, sSchedIdx, cleared>>
            /\ ~At("schedIdx") \/ UNCHANGED op
            /\ ~At("schedIdx")' \/ UNCHANGED op
            /\ Erasing => Erasing'
         \/ \E i \in Schedules : SetSchedule(i) \/ ClearSchedule(i)
         \/ StoreScheduleIndexes
         \/ RemoveNext
         \/ Restart
<1> DEFINE Alone == /\ UNCHANGED <<sched, schedIdx, sSched, sSchedIdx, cleared>>
                    /\ ~At("schedIdx") \/ UNCHANGED op
                    /\ ~At("schedIdx")' \/ UNCHANGED op
                    /\ Erasing => Erasing'
<1> USE DEF OpInv, At, Erasing
<1>1. ASSUME NEW u \in Users, NEW c \in Creds, NEW x \in Secrets, AddCredential(u, c, x)
      PROVE  Alone
  BY <1>1, OpType DEF AddCredential, Call, Command, OpSet, ram, store
<1>2. ASSUME NEW c \in Creds, NEW x \in Secrets, ModifyCredential(c, x)
      PROVE  Alone
  BY <1>2, OpType DEF ModifyCredential, Call, Command, OpSet, ram, store
<1>3. ASSUME NEW c \in Creds, ClearCredential(c)
      PROVE  Alone
  BY <1>3, OpType DEF ClearCredential, Call, Command, OpSet, ram, store, history
<1>4. ASSUME NEW u \in Users, NEW status \in {"enabled", "disabled"}, SetUserStatus(u, status)
      PROVE  Alone
  BY <1>4, OpType DEF SetUserStatus, Call, Command, OpSet, ram, store, history
<1>5. CASE SetUser
  BY <1>5, OpType DEF SetUser, Go, OpSet, history
<1>6. CASE StoreUserIndexes
  BY <1>6, OpType DEF StoreUserIndexes, Continue, OpSet, ram, history
<1>7. CASE SetCredential
  BY <1>7, OpType DEF SetCredential, Go, Continue, OpSet, history
<1>8. CASE StoreCredentialIndexes
  BY <1>8, OpType DEF StoreCredentialIndexes, Continue, OpSet, ram, history
<1>9. CASE FactoryReset
  BY <1>9, OpType DEF FactoryReset, Call, Command, OpSet, ram, store, history
<1>10. CASE InitializeAll
  BY <1>10, OpType DEF InitializeAll, Go, OpSet, store, history
<1>11. CASE UNCHANGED vars
  BY <1>11 DEF vars, ram, store, history
<1> QED
  BY <1>1, <1>2, <1>3, <1>4, <1>5, <1>6, <1>7, <1>8, <1>9, <1>10, <1>11 DEF Next

LEMMA ScheduleStep ==
  ASSUME OpInv, TypeInv, Unless({"schedule"}, Schedule), [Next]_vars
  PROVE  Unless({"schedule"}, Schedule)'
<1> SUFFICES ASSUME upset' \cap {"schedule"} = {}
             PROVE  Schedule'
  BY DEF Unless
<1>1. Schedule
  BY UpsetGrows DEF Unless
<1>2. TypeInv'
  BY TypeStep
<1>3. CASE /\ UNCHANGED <<sched, schedIdx, sSched, sSchedIdx, cleared>>
           /\ ~At("schedIdx") \/ UNCHANGED op
           /\ ~At("schedIdx")' \/ UNCHANGED op
           /\ Erasing => Erasing'
  BY <1>1, <1>3 DEF Schedule, At, Erasing
<1>4. ASSUME NEW i \in Schedules, SetSchedule(i)
      PROVE  Schedule'
  <2>1. /\ ToSet(schedIdx') = ToSet(schedIdx) \cup {i}
        /\ sched' = [sched EXCEPT ![i] = TRUE] /\ sSched' = [sSched EXCEPT ![i] = TRUE]
        /\ cleared' = cleared \ {i} /\ UNCHANGED sSchedIdx
    BY <1>4, AddIndexFacts DEF SetSchedule, Fault, TypeInv
  <2>2. At("idle") /\ op'.at = "schedIdx" /\ op'.clear = FALSE
    BY <1>4, OpType DEF SetSchedule, Call, Fault, OpSet
  <2> QED
    BY <1>1, <2>1, <2>2, NoneIsNothing DEF Schedule, At, Erasing, TypeInv
<1>5. ASSUME NEW i \in Schedules, ClearSchedule(i)
      PROVE  Schedule'
  <2>1. CASE ~sched[i] /\ UNCHANGED <<schedIdx, sSched, op>>
    <3>1. sched' = sched
      BY <1>5, <2>1 DEF ClearSchedule, TypeInv
    <3> QED
      BY <1>1, <1>5, <2>1, <3>1 DEF ClearSchedule, Schedule, At, Erasing, Fault
  <2>2. CASE ~(~sched[i] /\ UNCHANGED <<schedIdx, sSched, op>>)
    <3>1. /\ sched' = [sched EXCEPT ![i] = FALSE] /\ sSched' = [sSched EXCEPT ![i] = None]
          /\ ToSet(schedIdx') = ToSet(schedIdx) \ {i}
          /\ UNCHANGED <<sSchedIdx, cleared>>
      BY <1>5, <2>2, RemoveIndexFacts DEF ClearSchedule, Fault, TypeInv
    <3>2. At("idle") /\ op'.at = "schedIdx" /\ op'.c = i
      BY <1>5, <2>2, OpType DEF ClearSchedule, Call, Fault, OpSet
    <3> QED
      BY <1>1, <3>1, <3>2 DEF Schedule, At, Erasing, TypeInv
  <2> QED
    BY <2>1, <2>2
<1>6. CASE StoreScheduleIndexes
  <2>1. /\ UNCHANGED <<sched, sSched, schedIdx>> /\ op' = NoOp /\ At("schedIdx")
        /\ cleared' = IF op.clear THEN cleared \cup {op.c} ELSE cleared
        /\ sSchedIdx' = IF schedIdx = <<>> THEN None ELSE schedIdx
    BY <1>6 DEF StoreScheduleIndexes, Go, Fault, ram
  <2>2. Listed(sSchedIdx') = schedIdx
    BY <2>1, NoneIsNothing DEF Listed, TypeInv
  <2> QED
    BY <1>1, <2>1, <2>2, OpType DEF Schedule, At, Erasing
<1>7. CASE RemoveNext
  <2>1. Erasing /\ Erasing' /\ ~At("schedIdx")' /\ UNCHANGED <<sched, schedIdx, cleared>>
    BY <1>7 DEF RemoveNext, Erasing, At, OpInv, OpSet, ram, history
  <2>2. /\ \A i \in Schedules : sSched'[i] = sSched[i] \/ sSched'[i] = None
        /\ sSchedIdx' = sSchedIdx \/ sSchedIdx' = None
    BY <1>7 DEF RemoveNext, Without, store, TypeInv
  <2>3. \A i \in Schedules : i \in ToSet(Listed(sSchedIdx')) => i \in ToSet(Listed(sSchedIdx))
    BY <2>2, EmptyList
  <2> QED
    BY <1>1, <2>1, <2>2, <2>3 DEF Schedule
<1>8. CASE Restart
  <2>1. /\ UNCHANGED <<sSched, sSchedIdx, cleared>> /\ op' = NoOp
        /\ schedIdx' = Listed(sSchedIdx)
        /\ \A i \in Schedules : sched'[i] = (i \in ToSet(Listed(sSchedIdx)) /\ sSched[i] # None)
    BY <1>8 DEF Restart, store, history, LoadSchedule
  <2>2. \A i \in cleared : ~sched'[i]
    BY <1>1, <2>1 DEF Schedule, TypeInv
  <2> QED
    BY <2>1, <2>2, OpType DEF Schedule, At, Erasing
<1> QED
  BY <1>3, <1>4, <1>5, <1>6, <1>7, <1>8, SchedulesAlone

(* What each step does to the data of users and credentials.                  *)

data == <<user, cred, userIdx, credIdx, sUser, sCred, sUserIdx, sCredIdx>>

LEMMA AddCredentialDoes ==
  ASSUME OpInv, NEW u \in Users, NEW c \in Creds, NEW x \in Secrets, AddCredential(u, c, x)
  PROVE  /\ op.at = "idle" /\ UNCHANGED data /\ given' = [given EXCEPT ![x] = u]
         /\ cred[c].status = "available" /\ user[u].status # "disabled"
         /\ \A d \in Creds : cred[d].secret # x
         /\ op'.at = "setUser" /\ op'.then = "setCred" /\ op'.u = u /\ op'.c = c
         /\ op'.secret = x /\ op'.clear = FALSE
         /\ op'.user.status = "enabled" /\ op'.user.creds = user[u].creds \cup {c}
<1> DEFINE new == [status |-> "enabled", creds |-> user[u].creds \cup {c}]
<1>1. op' = [at |-> "setUser", u |-> u, c |-> c, user |-> new, secret |-> x,
             clear |-> FALSE, then |-> "setCred", todo |-> <<>>]
  BY DEF AddCredential, Call, NoOp
<1>2. /\ op.at = "idle" /\ cred[c].status = "available" /\ user[u].status # "disabled"
      /\ \A d \in Creds : cred[d].secret # x
      /\ UNCHANGED data /\ given' = [given EXCEPT ![x] = u]
  BY DEF AddCredential, Call, Command, ram, store, data, At
<1>3. new.status = "enabled" /\ new.creds = user[u].creds \cup {c}
  OBVIOUS
<1> HIDE DEF new
<1> QED
  BY <1>1, <1>2, <1>3

LEMMA ModifyCredentialDoes ==
  ASSUME OpInv, TypeInv, NEW c \in Creds, NEW x \in Secrets, ModifyCredential(c, x)
  PROVE  /\ op.at = "idle" /\ UNCHANGED data /\ given' = [given EXCEPT ![x] = Owner(c)]
         /\ Owner(c) \in Users /\ c \in user[Owner(c)].creds
         /\ \A d \in Creds : cred[d].secret # x
         /\ op'.at = "setCred" /\ op'.then = "idle" /\ op'.c = c
         /\ op'.secret = x /\ op'.clear = FALSE
<1>1. /\ op.at = "idle" /\ Owner(c) # 0 /\ \A d \in Creds : cred[d].secret # x
      /\ UNCHANGED data /\ given' = [given EXCEPT ![x] = Owner(c)]
  BY DEF ModifyCredential, Call, Command, ram, store, data, At
<1>2. op'.at = "setCred" /\ op'.then = "idle" /\ op'.c = c /\ op'.secret = x /\ op'.clear = FALSE
  BY DEF ModifyCredential, Call, NoOp
<1>3. Owner(c) \in Users /\ c \in user[Owner(c)].creds
  BY <1>1, OwnerFacts
<1> QED
  BY <1>1, <1>2, <1>3

LEMMA ClearCredentialDoes ==
  ASSUME OpInv, TypeInv, NEW c \in Creds, ClearCredential(c)
  PROVE  /\ op.at = "idle" /\ UNCHANGED <<data, given>>
         /\ Owner(c) \in Users /\ c \in user[Owner(c)].creds
         /\ op'.at = "setCred" /\ op'.then = "setUser" /\ op'.u = Owner(c) /\ op'.c = c /\ op'.clear = TRUE
         /\ op'.user.creds = user[Owner(c)].creds \ {c}
         /\ op'.user.status = "available" => op'.user.creds = {}
         /\ op'.user.status = "disabled" => user[Owner(c)].status = "disabled"
<1> DEFINE rest == user[Owner(c)].creds \ {c}
           new  == IF rest = {} THEN NoUser ELSE [user[Owner(c)] EXCEPT !.creds = rest]
<1>1. Owner(c) \in Users /\ user[Owner(c)].status # "available" /\ c \in user[Owner(c)].creds
  BY OwnerFacts DEF ClearCredential
<1>2. /\ new.creds = rest /\ (new.status = "available" => new.creds = {})
      /\ new.status = "disabled" => user[Owner(c)].status = "disabled"
  BY <1>1, OpType DEF TypeInv, UserSet
<1>3. op' = [at |-> "setCred", u |-> Owner(c), c |-> c, user |-> new, secret |-> Empty,
             clear |-> TRUE, then |-> "setUser", todo |-> <<>>]
  BY DEF ClearCredential, Call, NoOp
<1>4. op.at = "idle" /\ UNCHANGED <<data, given>>
  BY DEF ClearCredential, Call, Command, ram, store, data, history, At
<1> HIDE DEF new
<1> QED
  BY <1>1, <1>2, <1>3, <1>4

LEMMA SetUserStatusDoes ==
  ASSUME OpInv, TypeInv, NEW u \in Users, NEW status \in {"enabled", "disabled"}, SetUserStatus(u, status)
  PROVE  /\ op.at = "idle" /\ UNCHANGED <<data, given>>
         /\ user[u].status # "available"
         /\ op'.at = "setUser" /\ op'.then = "idle" /\ op'.u = u /\ op'.clear = FALSE
         /\ op'.user.creds = user[u].creds /\ op'.user.status # "available"
<1> DEFINE new == [user[u] EXCEPT !.status = status]
<1>1. new.status # "available" /\ new.creds = user[u].creds
  BY DEF TypeInv, UserSet
<1>2. op' = [at |-> "setUser", u |-> u, c |-> 0, user |-> new, secret |-> Empty,
             clear |-> FALSE, then |-> "idle", todo |-> <<>>]
  BY DEF SetUserStatus, Call, NoOp
<1>3. op.at = "idle" /\ UNCHANGED <<data, given>> /\ user[u].status # "available"
  BY DEF SetUserStatus, Call, Command, ram, store, data, history, At
<1> HIDE DEF new
<1> QED
  BY <1>1, <1>2, <1>3

(* The schedules' commands.                                                   *)
ScheduleSteps == (\E i \in Schedules : SetSchedule(i) \/ ClearSchedule(i)) \/ StoreScheduleIndexes

LEMMA ScheduleStepsDo ==
  ASSUME OpInv, ScheduleSteps
  PROVE  /\ op.at \in {"idle", "schedIdx"} /\ UNCHANGED <<data, given>>
         /\ op'.at \in {"idle", "schedIdx"} /\ op'.then = "idle"
<1>1. ASSUME NEW i \in Schedules, SetSchedule(i) \/ ClearSchedule(i)
      PROVE  /\ op.at \in {"idle", "schedIdx"} /\ UNCHANGED <<data, given>>
             /\ op'.at \in {"idle", "schedIdx"} /\ op'.then = "idle"
  <2>1. UNCHANGED <<data, given>> /\ op.at = "idle"
    BY <1>1 DEF SetSchedule, ClearSchedule, Call, At, data
  <2>2. \/ UNCHANGED op
        \/ \E o \in OpSet : o.then = "idle" /\ op' = [o EXCEPT !.at = "schedIdx"]
    <3>1. /\ [NoOp EXCEPT !.c = i] \in OpSet /\ [NoOp EXCEPT !.c = i].then = "idle"
          /\ [NoOp EXCEPT !.c = i, !.clear = TRUE] \in OpSet
          /\ [NoOp EXCEPT !.c = i, !.clear = TRUE].then = "idle"
      BY OpType DEF OpSet
    <3> QED
      BY <1>1, <3>1 DEF SetSchedule, ClearSchedule, Call
  <2> QED
    BY <2>1, <2>2 DEF OpInv, OpSet
<1>2. CASE StoreScheduleIndexes
  BY <1>2, OpType DEF StoreScheduleIndexes, Go, At, ram, data
<1> QED
  BY <1>1, <1>2 DEF ScheduleSteps

LEMMA SetUserDoes ==
  ASSUME OpInv, TypeInv, SetUser
  PROVE  /\ op.u \in Users /\ op.user \in UserSet /\ op.at = "setUser"
         /\ UNCHANGED <<cred, credIdx, sCred, sUserIdx, sCredIdx, given>>
         /\ op' = NoOp \/ op' = [op EXCEPT !.at = "userIdx"]
         /\ "user" \notin upset' =>
               /\ user' = [user EXCEPT ![op.u] = op.user] /\ sUser' = [sUser EXCEPT ![op.u] = op.user]
               /\ ToSet(userIdx') = ToSet(userIdx) \cup {op.u}
               /\ op'.at = "userIdx" /\ op'.then = op.then /\ op'.u = op.u /\ op'.c = op.c
               /\ op'.user = op.user /\ op'.secret = op.secret /\ op'.clear = op.clear
<1>1. op.u \in Users /\ op.user \in UserSet /\ op.at = "setUser"
  BY DEF SetUser, OpInv, OpSet, At
<1>2. ASSUME "user" \notin upset'
      PROVE  /\ user' = [user EXCEPT ![op.u] = op.user] /\ sUser' = [sUser EXCEPT ![op.u] = op.user]
             /\ ToSet(userIdx') = ToSet(userIdx) \cup {op.u}
             /\ op' = [op EXCEPT !.at = "userIdx"]
  BY <1>1, <1>2, AddIndexFacts DEF SetUser, Fault, Go, TypeInv
<1>3. ASSUME op' = [op EXCEPT !.at = "userIdx"]
      PROVE  /\ op'.at = "userIdx" /\ op'.then = op.then /\ op'.u = op.u /\ op'.c = op.c
             /\ op'.user = op.user /\ op'.secret = op.secret /\ op'.clear = op.clear
  BY <1>3 DEF OpInv, OpSet
<1>4. op' = NoOp \/ op' = [op EXCEPT !.at = "userIdx"]
  BY DEF SetUser, Go
<1> QED
  BY <1>1, <1>2, <1>3, <1>4 DEF SetUser, history

(* The next call of the server, if any.                                       *)
LEMMA ContinueDoes ==
  ASSUME OpInv, Continue
  PROVE  \/ op.then = "idle" /\ op' = NoOp
         \/ /\ op.then # "idle" /\ op'.at = op.then /\ op'.then = "idle" /\ op'.u = op.u /\ op'.c = op.c
            /\ op'.user = op.user /\ op'.secret = op.secret /\ op'.clear = op.clear
BY DEF Continue, OpInv, OpSet

LEMMA StoreUserIndexesDoes ==
  ASSUME OpInv, StoreUserIndexes
  PROVE  /\ op.at = "userIdx" /\ op.then \in {"idle", "setCred"} /\ Continue
         /\ UNCHANGED <<user, cred, userIdx, credIdx, sUser, sCred, sCredIdx, given>>
         /\ "userIdx" \notin upset' => sUserIdx' = userIdx
BY DEF StoreUserIndexes, Fault, ram, history, OpInv, OpSet, At

LEMMA SetCredentialDoes ==
  ASSUME OpInv, TypeInv, SetCredential
  PROVE  /\ op.c \in Creds /\ op.at = "setCred" /\ op.then \in {"idle", "setUser"}
         /\ op.clear = (op.then = "setUser") /\ (~op.clear => op.secret \in Secrets)
         /\ UNCHANGED <<user, userIdx, sUser, sUserIdx, sCredIdx, given>>
         /\ credIdx' = AddIndex(credIdx, op.c) /\ ToSet(credIdx') = ToSet(credIdx) \cup {op.c}
         /\ \/ Continue
            \/ /\ op'.at = "credIdx" /\ op'.then = op.then /\ op'.u = op.u /\ op'.c = op.c
               /\ op'.user = op.user /\ op'.secret = op.secret /\ op'.clear = op.clear
         /\ \E new \in CredSet :
               /\ new.status = IF op.clear THEN "available" ELSE "occupied"
               /\ ~op.clear => new.secret = op.secret
               /\ cred' = [cred EXCEPT ![op.c] = new]
               /\ "cred" \notin upset' => sCred' = [sCred EXCEPT ![op.c] = new] /\ op'.at = "credIdx"
<1> DEFINE kept == IF Owner(op.c) = 0 THEN cred[op.c].secret ELSE Empty
           new  == IF op.clear THEN [status |-> "available", secret |-> kept]
                               ELSE [status |-> "occupied", secret |-> op.secret]
<1>1. op.c \in Creds /\ op.at = "setCred" /\ op.secret \in Secrets \cup {Empty}
      /\ (~op.clear => op.secret \in Secrets)
      /\ op.then \in {"idle", "setUser"} /\ op.clear = (op.then = "setUser")
  BY DEF SetCredential, OpInv, OpSet, At
<1>2. /\ new \in CredSet /\ new.status = IF op.clear THEN "available" ELSE "occupied"
      /\ ~op.clear => new.secret = op.secret
  BY <1>1 DEF CredSet, TypeInv
<1>3. /\ cred' = [cred EXCEPT ![op.c] = new]
      /\ credIdx' = AddIndex(credIdx, op.c)
      /\ "cred" \notin upset' => sCred' = [sCred EXCEPT ![op.c] = new] /\ op' = [op EXCEPT !.at = "credIdx"]
      /\ Continue \/ op' = [op EXCEPT !.at = "credIdx"]
      /\ UNCHANGED <<user, userIdx, sUser, sUserIdx, sCredIdx, given>>
  BY DEF SetCredential, Fault, Go, history
<1> HIDE DEF new
<1>4. ToSet(credIdx') = ToSet(credIdx) \cup {op.c}
  BY <1>1, <1>3, AddIndexFacts DEF TypeInv
<1>5. ASSUME op' = [op EXCEPT !.at = "credIdx"]
      PROVE  /\ op'.at = "credIdx" /\ op'.then = op.then /\ op'.u = op.u /\ op'.c = op.c
             /\ op'.user = op.user /\ op'.secret = op.secret /\ op'.clear = op.clear
  BY <1>5 DEF OpInv, OpSet
<1> QED
  BY <1>1, <1>2, <1>3, <1>4, <1>5

LEMMA StoreCredentialIndexesDoes ==
  ASSUME OpInv, StoreCredentialIndexes
  PROVE  /\ op.at = "credIdx" /\ op.then \in {"idle", "setUser"} /\ Continue
         /\ op.clear = (op.then = "setUser")
         /\ UNCHANGED <<user, cred, userIdx, credIdx, sUser, sCred, sUserIdx, given>>
         /\ "credIdx" \notin upset' => sCredIdx' = credIdx
BY DEF StoreCredentialIndexes, Fault, ram, history, OpInv, OpSet, At

-----------------------------------------------------------------------------
(* A factory reset.                                                           *)

LEMMA OrderOfConcat ==
  ASSUME NEW a \in Seq(Items), NEW b \in Seq(Items), Order(a), Order(b),
         \A item \in ToSet(b) : item[1] # "user",
         <<"cred", 0>> \notin ToSet(a) \/ \A item \in ToSet(b) : item[1] # "cred"
  PROVE  Order(a \o b)
<1> DEFINE ab == a \o b
<1>1. /\ Len(a) \in Nat /\ Len(b) \in Nat /\ DOMAIN a = 1 .. Len(a) /\ DOMAIN b = 1 .. Len(b)
      /\ \A p \in 1 .. Len(a) : a[p] \in ToSet(a)
      /\ \A p \in 1 .. Len(b) : b[p] \in ToSet(b)
  BY DEF ToSet
<1>2. /\ ab \in Seq(Items) /\ Len(ab) = Len(a) + Len(b)
      /\ \A i \in 1 .. Len(a) + Len(b) : ab[i] = IF i <= Len(a) THEN a[i] ELSE b[i - Len(a)]
  BY ConcatProperties
<1> HIDE DEF ab
<1>3. DOMAIN ab = 1 .. Len(a) + Len(b)
  BY <1>2
<1>4. ASSUME NEW i \in DOMAIN ab
      PROVE  \/ i \in DOMAIN a /\ ab[i] = a[i]
             \/ \E j \in DOMAIN b : i = Len(a) + j /\ ab[i] = b[j]
  <2>1. CASE i <= Len(a)
    BY <1>1, <1>2, <1>3, <2>1
  <2>2. CASE ~(i <= Len(a))
    <3> DEFINE j == i - Len(a)
    <3>1. j \in DOMAIN b /\ i = Len(a) + j
      BY <1>1, <1>3, <2>2
    <3>2. ab[i] = b[j]
      BY <1>2, <1>3, <2>2
    <3> HIDE DEF j
    <3> QED
      BY <3>1, <3>2
  <2> QED
    BY <2>1, <2>2
<1>5. ASSUME NEW p \in DOMAIN ab, NEW q \in DOMAIN ab, p < q
      PROVE  /\ ab[q][1] = "user" /\ ab[q][2] # 0 => ab[p][1] = "user" /\ ab[p][2] # 0
             /\ ab[q][1] = "cred" /\ ab[q][2] # 0 => ab[p] # <<"cred", 0>>
  <2>1. CASE q \in DOMAIN a /\ ab[q] = a[q]
    <3>1. p \in DOMAIN a /\ ab[p] = a[p]
      BY <1>1, <1>2, <1>3, <1>5, <2>1
    <3> QED
      BY <1>5, <2>1, <3>1 DEF Order
  <2>2. ASSUME NEW j \in DOMAIN b, q = Len(a) + j, ab[q] = b[j]
        PROVE  /\ ab[q][1] = "user" /\ ab[q][2] # 0 => ab[p][1] = "user" /\ ab[p][2] # 0
               /\ ab[q][1] = "cred" /\ ab[q][2] # 0 => ab[p] # <<"cred", 0>>
    <3>1. CASE p \in DOMAIN a /\ ab[p] = a[p]
      BY <1>1, <2>2, <3>1
    <3>2. ASSUME NEW k \in DOMAIN b, p = Len(a) + k, ab[p] = b[k]
          PROVE  /\ ab[q][1] = "user" /\ ab[q][2] # 0 => ab[p][1] = "user" /\ ab[p][2] # 0
                 /\ ab[q][1] = "cred" /\ ab[q][2] # 0 => ab[p] # <<"cred", 0>>
      <4>1. k < j
        BY <1>1, <1>5, <2>2, <3>2
      <4> QED
        BY <2>2, <3>2, <4>1 DEF Order
    <3> QED
      BY <1>4, <3>1, <3>2
  <2> QED
    BY <1>4, <2>1, <2>2
<1> QED
  BY <1>5 DEF Order, ab

LEMMA OrderOfTail ==
  ASSUME NEW s \in Seq(Items), s # <<>>, Order(s)
  PROVE  /\ Order(Tail(s))
         /\ s[1][1] # "user" \/ s[1][2] = 0 => \A u \in Users : <<"user", u>> \notin ToSet(s)
         /\ s[1] = <<"cred", 0>> => \A c \in Creds : <<"cred", c>> \notin ToSet(Tail(s))
<1>1. /\ Len(s) \in Nat /\ Len(s) >= 1 /\ DOMAIN s = 1 .. Len(s)
      /\ Len(Tail(s)) = Len(s) - 1 /\ DOMAIN Tail(s) = 1 .. Len(s) - 1
      /\ \A p \in 1 .. Len(s) - 1 : Tail(s)[p] = s[p + 1]
  OBVIOUS
<1>2. \A p \in 1 .. Len(s) - 1 : p + 1 \in 1 .. Len(s) /\ 1 < p + 1
  BY <1>1
<1>3. Order(Tail(s))
  <2> SUFFICES ASSUME NEW p \in DOMAIN Tail(s), NEW q \in DOMAIN Tail(s), p < q
               PROVE  /\ Tail(s)[q][1] = "user" /\ Tail(s)[q][2] # 0 =>
                            Tail(s)[p][1] = "user" /\ Tail(s)[p][2] # 0
                      /\ Tail(s)[q][1] = "cred" /\ Tail(s)[q][2] # 0 => Tail(s)[p] # <<"cred", 0>>
    BY DEF Order
  <2> DEFINE pp == p + 1
             qq == q + 1
  <2>1. pp \in DOMAIN s /\ qq \in DOMAIN s /\ pp < qq
    BY <1>1
  <2>2. Tail(s)[p] = s[pp] /\ Tail(s)[q] = s[qq]
    BY <1>1
  <2> HIDE DEF pp, qq
  <2> QED
    BY <2>1, <2>2 DEF Order
<1>4. 0 \notin Users /\ 0 \notin Creds
  BY IndicesAssumption
<1>5. ASSUME s[1][1] # "user" \/ s[1][2] = 0, NEW u \in Users, <<"user", u>> \in ToSet(s)
      PROVE  FALSE
  <2>1. PICK q \in 1 .. Len(s) : s[q] = <<"user", u>>
    BY <1>1, <1>5 DEF ToSet
  <2>2. q # 1 /\ s[q][1] = "user" /\ s[q][2] # 0
    BY <1>4, <1>5, <2>1
  <2>3. 1 \in DOMAIN s /\ q \in DOMAIN s /\ 1 < q
    BY <1>1, <2>2
  <2> QED
    BY <1>5, <2>2, <2>3 DEF Order
<1>6. ASSUME s[1] = <<"cred", 0>>, NEW c \in Creds, <<"cred", c>> \in ToSet(Tail(s))
      PROVE  FALSE
  <2>1. PICK p \in 1 .. Len(s) - 1 : Tail(s)[p] = <<"cred", c>>
    BY <1>1, <1>6 DEF ToSet
  <2> DEFINE q == p + 1
  <2>2. 1 \in DOMAIN s /\ q \in DOMAIN s /\ 1 < q /\ s[q] = <<"cred", c>>
    BY <1>1, <2>1
  <2> HIDE DEF q
  <2>3. s[q][1] = "cred" /\ s[q][2] # 0
    BY <1>4, <2>2
  <2> QED
    BY <1>6, <2>2, <2>3 DEF Order
<1> QED
  BY <1>3, <1>5, <1>6

(* The list of indices goes last.                                             *)
LEMMA OrderOfCollection ==
  ASSUME NEW what \in {"user", "cred", "schedule"}, NEW S, S \subseteq Users \cup Creds \cup Schedules,
         NEW list \in Seq(S), what = "schedule" \/ 0 \notin S
  PROVE  /\ Order(Collection(what, list))
         /\ \A item \in ToSet(Collection(what, list)) : item[1] = what
<1>1. CASE list = <<>>
  <2>1. Collection(what, list) = <<>> /\ DOMAIN <<>> = {}
    BY <1>1 DEF Collection
  <2> QED
    BY <2>1 DEF Order, ToSet
<1>2. CASE list # <<>>
  <2> DEFINE items == [p \in DOMAIN list |-> <<what, list[p]>>]
             last  == <<<<what, 0>>>>
             all   == items \o last
  <2>1. Collection(what, list) = all
    BY <1>2 DEF Collection
  <2>2. Len(list) \in Nat /\ DOMAIN list = 1 .. Len(list) /\ \A p \in 1 .. Len(list) : list[p] \in S
    OBVIOUS
  <2>3. \A p \in 1 .. Len(list) : <<what, list[p]>> \in Items
    BY <2>2 DEF Items
  <2>4. items \in Seq(Items) /\ Len(items) = Len(list)
        /\ \A p \in 1 .. Len(list) : items[p] = <<what, list[p]>>
    BY <2>2, <2>3
  <2>5. last \in Seq(Items) /\ Len(last) = 1 /\ last[1] = <<what, 0>>
    BY DEF Items
  <2> HIDE DEF items, last
  <2>6. /\ all \in Seq(Items) /\ Len(all) = Len(list) + 1
        /\ \A i \in 1 .. Len(list) + 1 : all[i] = IF i <= Len(list) THEN items[i] ELSE last[i - Len(list)]
    <3>1. /\ all \in Seq(Items) /\ Len(all) = Len(items) + Len(last)
          /\ \A i \in 1 .. Len(items) + Len(last) :
                all[i] = IF i <= Len(items) THEN items[i] ELSE last[i - Len(items)]
      BY <2>4, <2>5, ConcatProperties
    <3> HIDE DEF all
    <3> QED
      BY <2>4, <2>5, <3>1
  <2> HIDE DEF all
  <2>7. DOMAIN all = 1 .. Len(list) + 1
    BY <2>6
  <2>8. ASSUME NEW i \in 1 .. Len(list) + 1
        PROVE  all[i] = <<what, IF i <= Len(list) THEN list[i] ELSE 0>>
    <3>1. CASE i <= Len(list)
      BY <2>2, <2>4, <2>6, <3>1
    <3>2. CASE ~(i <= Len(list))
      <4>1. i - Len(list) = 1
        BY <2>2, <3>2
      <4> QED
        BY <2>5, <2>6, <3>2, <4>1
    <3> QED
      BY <3>1, <3>2
  <2>9. \A i \in 1 .. Len(list) + 1 : all[i][1] = what /\ all[i][2] = IF i <= Len(list) THEN list[i] ELSE 0
    BY <2>8
  <2>10. \A p, q \in 1 .. Len(list) + 1 : p < q => p \in 1 .. Len(list) /\ p <= Len(list)
    BY <2>2
  <2>11. Order(all)
    <3> SUFFICES ASSUME NEW p \in 1 .. Len(list) + 1, NEW q \in 1 .. Len(list) + 1, p < q
                 PROVE  /\ all[q][1] = "user" /\ all[q][2] # 0 => all[p][1] = "user" /\ all[p][2] # 0
                        /\ all[q][1] = "cred" /\ all[q][2] # 0 => all[p] # <<"cred", 0>>
      BY <2>7 DEF Order
    <3>1. all[p][1] = what /\ all[q][1] = what /\ all[p][2] = list[p] /\ list[p] \in S
      BY <2>2, <2>9, <2>10
    <3>2. all[p] = <<"cred", 0>> => all[p][2] = 0
      OBVIOUS
    <3> QED
      BY <3>1, <3>2
  <2>12. \A item \in ToSet(all) : item[1] = what
    BY <2>7, <2>9 DEF ToSet
  <2> QED
    BY <2>1, <2>11, <2>12
<1> QED
  BY <1>1, <1>2

LEMMA FactoryResetDoes ==
  ASSUME OpInv, TypeInv, FactoryReset
  PROVE  /\ UNCHANGED <<data, given>>
         /\ op.at = "idle" /\ op'.at = "remove" /\ op'.then = "idle"
         /\ \A u \in ToSet(userIdx) : <<"user", u>> \in ToSet(op'.todo)
         /\ \A c \in ToSet(credIdx) : <<"cred", c>> \in ToSet(op'.todo)
         /\ userIdx # <<>> => <<"user", 0>> \in ToSet(op'.todo)
         /\ credIdx # <<>> => <<"cred", 0>> \in ToSet(op'.todo)
         /\ Order(op'.todo)
<1> DEFINE cu == Collection("user", userIdx)
           cc == Collection("cred", credIdx)
           cs == Collection("schedule", schedIdx)
           todo == cu \o cc \o cs
<1>1. /\ cu \in Seq(Items) /\ cc \in Seq(Items) /\ cs \in Seq(Items)
      /\ \A u \in ToSet(userIdx) : <<"user", u>> \in ToSet(cu)
      /\ \A c \in ToSet(credIdx) : <<"cred", c>> \in ToSet(cc)
      /\ userIdx # <<>> => <<"user", 0>> \in ToSet(cu)
      /\ credIdx # <<>> => <<"cred", 0>> \in ToSet(cc)
  BY CollectionFacts DEF TypeInv, Lists
<1>2. 0 \notin Users /\ 0 \notin Creds
  BY IndicesAssumption
<1>3. /\ Order(cu) /\ Order(cc) /\ Order(cs)
      /\ \A item \in ToSet(cu) : item[1] = "user"
      /\ \A item \in ToSet(cc) : item[1] = "cred"
      /\ \A item \in ToSet(cs) : item[1] = "schedule"
  BY <1>2, OrderOfCollection DEF TypeInv, Lists
<1>4. op' = [[NoOp EXCEPT !.todo = todo] EXCEPT !.at = "remove"] /\ op.at = "idle"
  BY DEF FactoryReset, Call, At
<1> HIDE DEF cu, cc, cs
<1>5. cu \o cc \in Seq(Items) /\ ToSet(cu) \subseteq ToSet(cu \o cc) /\ ToSet(cc) \subseteq ToSet(cu \o cc)
  BY <1>1, ConcatFacts
<1>6. ToSet(cu \o cc) \subseteq ToSet(todo)
  BY <1>1, <1>5, ConcatFacts
<1>7. Order(todo)
  <2>1. <<"cred", 0>> \notin ToSet(cu)
    BY <1>3
  <2>2. \A item \in ToSet(cc) : item[1] # "user"
    BY <1>3
  <2>3. Order(cu \o cc)
    BY <1>1, <1>3, <2>1, <2>2, OrderOfConcat
  <2>4. \A item \in ToSet(cs) : item[1] # "user" /\ item[1] # "cred"
    BY <1>3
  <2> QED
    BY <1>1, <1>3, <1>5, <2>3, <2>4, OrderOfConcat
<1> HIDE DEF todo
<1>8. op'.at = "remove" /\ op'.then = "idle" /\ op'.todo = todo
  BY <1>4, OpType DEF OpSet
<1>9. UNCHANGED <<data, given>>
  BY DEF FactoryReset, Command, ram, store, history, data
<1> QED
  BY <1>1, <1>4, <1>5, <1>6, <1>7, <1>8, <1>9

LEMMA RemoveNextDoes ==
  ASSUME OpInv, TypeInv, RemoveNext, "remove" \notin upset'
  PROVE  /\ UNCHANGED <<user, cred, userIdx, credIdx, given>>
         /\ op.at = "remove" /\ op'.at = "remove" /\ op'.then = "idle" /\ op'.clear = op.clear
         /\ \E what \in {"user", "cred", "schedule"}, i \in Users \cup Creds \cup Schedules \cup {0} :
               /\ Without(what, i)
               /\ ToSet(op.todo) = {<<what, i>>} \cup ToSet(op'.todo)
               /\ Order(op.todo) =>
                     /\ Order(op'.todo)
                     /\ what # "user" \/ i = 0 => \A u \in Users : <<"user", u>> \notin ToSet(op.todo)
                     /\ what = "cred" /\ i = 0 => \A c \in Creds : <<"cred", c>> \notin ToSet(op'.todo)
<1> DEFINE first == op.todo[1]
<1>1. /\ op.todo \in Seq(Items) /\ op.todo # <<>> /\ op.at = "remove" /\ op.then = "idle"
      /\ op' = [op EXCEPT !.todo = Tail(op.todo)]
      /\ Without(first[1], first[2])
      /\ UNCHANGED <<user, cred, userIdx, credIdx, given>>
  BY DEF RemoveNext, At, OpInv, OpSet, Fault, ram, history
<1>2. first \in Items /\ ToSet(op.todo) = {first} \cup ToSet(Tail(op.todo))
  BY <1>1, TailFacts
<1>3. op'.at = "remove" /\ op'.then = op.then /\ op'.todo = Tail(op.todo) /\ op'.clear = op.clear
  BY <1>1 DEF OpInv, OpSet
<1>4. Order(op.todo) =>
        /\ Order(op'.todo)
        /\ first[1] # "user" \/ first[2] = 0 => \A u \in Users : <<"user", u>> \notin ToSet(op.todo)
        /\ first = <<"cred", 0>> => \A c \in Creds : <<"cred", c>> \notin ToSet(op'.todo)
  BY <1>1, <1>3, OrderOfTail
<1> HIDE DEF first
<1>5. PICK what \in {"user", "cred", "schedule"}, i \in Users \cup Creds \cup Schedules \cup {0} :
         first = <<what, i>>
  BY <1>2 DEF Items
<1>6. first[1] = what /\ first[2] = i
  BY <1>5
<1> QED
  BY <1>1, <1>2, <1>3, <1>4, <1>5, <1>6

LEMMA InitializeAllDoes ==
  ASSUME OpInv, InitializeAll
  PROVE  /\ op.at = "remove" /\ op'.at = "reboot" /\ op'.then = "idle" /\ op.todo = <<>> /\ op'.todo = <<>>
         /\ user' = [u \in Users |-> NoUser] /\ cred' = [c \in Creds |-> NoCred]
         /\ UNCHANGED <<userIdx, credIdx, sUser, sCred, sUserIdx, sCredIdx, given>>
BY DEF InitializeAll, Go, At, OpInv, OpSet, store, history

-----------------------------------------------------------------------------
LEMMA RestartDoes ==
  ASSUME TypeInv, Restart
  PROVE  /\ UNCHANGED <<sUser, sCred, sUserIdx, sCredIdx, given>> /\ op' = NoOp
         /\ op'.at = "idle" /\ op'.then = "idle"
         /\ \A u \in Users : user'[u] = IF u \in ToSet(Listed(sUserIdx)) /\ sUser[u] # None
                                        THEN sUser[u] ELSE NoUser
         /\ userIdx' = Listed(sUserIdx) /\ credIdx' = Listed(sCredIdx)
         /\ "load" \notin upset' => cred' = LoadCredentials({})
         /\ "reset" \notin upset' => ~At("remove")
         /\ "cut" \notin upset' => op.at \in {"idle", "remove", "reboot"}
<1>1. "load" \notin upset' => cred' = LoadCredentials({})
  <2>1. PICK unread \in {{}} \cup {{c} : c \in Creds} :
          /\ cred' = LoadCredentials(unread)
          /\ upset' = upset \cup (IF unread = {} THEN {} ELSE {"load"})
                           \cup (IF At("idle") \/ At("reboot") THEN {} ELSE IF At("remove") THEN {"reset"} ELSE {"cut"})
    BY DEF Restart
  <2>2. "load" \notin upset' => unread = {}
    BY <2>1
  <2> QED
    BY <2>1, <2>2
<1>2. \E was : upset' = was \cup (IF At("idle") \/ At("reboot") THEN {} ELSE IF At("remove") THEN {"reset"} ELSE {"cut"})
  BY DEF Restart
<1>3. /\ "reset" \notin upset' => ~At("remove")
      /\ "cut" \notin upset' => op.at \in {"idle", "remove", "reboot"}
  BY <1>2 DEF At
<1> QED
  BY <1>1, <1>3, OpType DEF Restart, LoadUser, store, history

-----------------------------------------------------------------------------
(* The parts of the invariant, one lemma each.                                *)

LEMMA SecretStep ==
  ASSUME OpInv, TypeInv, SecretInv, [Next]_vars
  PROVE  SecretInv'
<1> USE DEF At
<1>1. ASSUME NEW u \in Users, NEW c \in Creds, NEW x \in Secrets, AddCredential(u, c, x)
      PROVE  SecretInv'
  <2>1. op'.at = "setUser" /\ op'.secret = x /\ UNCHANGED data
    BY <1>1, AddCredentialDoes
  <2>2. \A d \in Creds : cred[d].secret # x
    BY <1>1 DEF AddCredential
  <2> QED
    BY <2>1, <2>2 DEF SecretInv, data
<1>2. ASSUME NEW c \in Creds, NEW x \in Secrets, ModifyCredential(c, x)
      PROVE  SecretInv'
  BY <1>2, ModifyCredentialDoes DEF SecretInv, data
<1>3. ASSUME NEW c \in Creds, ClearCredential(c)
      PROVE  SecretInv'
  BY <1>3, ClearCredentialDoes DEF SecretInv
<1>4. ASSUME NEW u \in Users, NEW status \in {"enabled", "disabled"}, SetUserStatus(u, status)
      PROVE  SecretInv'
  BY <1>4, SetUserStatusDoes DEF SecretInv
<1>5. CASE ScheduleSteps
  BY <1>5, ScheduleStepsDo DEF SecretInv
<1>6. CASE SetUser
  <2>1. UNCHANGED cred /\ (op' = NoOp \/ op' = [op EXCEPT !.at = "userIdx"])
    BY <1>6, SetUserDoes
  <2>2. \/ op'.then = "idle" /\ op'.at = "idle"
        \/ op'.then = op.then /\ op'.secret = op.secret /\ op'.at = "userIdx"
    BY <2>1, OpType DEF OpInv, OpSet
  <2> QED
    BY <2>1, <2>2 DEF SecretInv
<1>7. CASE StoreUserIndexes
  BY <1>7, StoreUserIndexesDoes, ContinueDoes, OpType DEF SecretInv
<1>8. CASE SetCredential
  <2>1. PICK new \in CredSet :
          /\ op.c \in Creds /\ op.at = "setCred" /\ op.then \in {"idle", "setUser"}
          /\ new.status = IF op.clear THEN "available" ELSE "occupied"
          /\ ~op.clear => new.secret = op.secret
          /\ cred' = [cred EXCEPT ![op.c] = new]
    BY <1>8, SetCredentialDoes
  <2>2. cred'[op.c] = new /\ \A c \in Creds \ {op.c} : cred'[c] = cred[c]
    BY <2>1 DEF TypeInv
  <2>3. \/ op'.at \in {"idle", "setUser"} /\ op'.then = "idle"
        \/ op'.at = "credIdx" /\ op'.then \in {"idle", "setUser"} /\ op'.c = op.c
    BY <1>8, <2>1, SetCredentialDoes, ContinueDoes, OpType
  <2>4. new.status = "occupied" => \A c \in Creds \ {op.c} : cred'[c].secret # new.secret
    BY <2>1, <2>2 DEF SecretInv
  <2> QED
    BY <2>2, <2>3, <2>4 DEF SecretInv
<1>9. CASE StoreCredentialIndexes
  BY <1>9, StoreCredentialIndexesDoes, ContinueDoes, OpType DEF SecretInv
<1>10. CASE FactoryReset
  BY <1>10, FactoryResetDoes DEF SecretInv
<1>11. CASE RemoveNext
  BY <1>11, OpType DEF RemoveNext, SecretInv, OpInv, OpSet
<1>12. CASE InitializeAll
  BY <1>12, InitializeAllDoes DEF SecretInv
<1>13. CASE Restart
  BY <1>13, RestartDoes DEF SecretInv
<1>14. CASE UNCHANGED vars
  BY <1>14 DEF SecretInv, vars, ram
<1> QED
  BY <1>1, <1>2, <1>3, <1>4, <1>5, <1>6, <1>7, <1>8, <1>9, <1>10, <1>11, <1>12, <1>13, <1>14
     DEF Next, ScheduleSteps

(* The other steps leave the data alone, and begin a command or end one.      *)
Quiet ==
    /\ UNCHANGED data
    /\ \/ UNCHANGED op
       \/ /\ op.at \in {"idle", "schedIdx"} /\ op'.at \in {"idle", "schedIdx", "setUser", "setCred"}

LEMMA DataSteps ==
  ASSUME OpInv, TypeInv, [Next]_vars
  PROVE  \/ Quiet
         \/ SetUser \/ StoreUserIndexes \/ SetCredential \/ StoreCredentialIndexes
         \/ FactoryReset \/ RemoveNext \/ InitializeAll \/ Restart
<1>1. ASSUME NEW u \in Users, NEW c \in Creds, NEW x \in Secrets, AddCredential(u, c, x)
      PROVE  Quiet
  BY <1>1, AddCredentialDoes DEF Quiet
<1>2. ASSUME NEW c \in Creds, NEW x \in Secrets, ModifyCredential(c, x)
      PROVE  Quiet
  BY <1>2, ModifyCredentialDoes DEF Quiet
<1>3. ASSUME NEW c \in Creds, ClearCredential(c)
      PROVE  Quiet
  BY <1>3, ClearCredentialDoes DEF Quiet
<1>4. ASSUME NEW u \in Users, NEW status \in {"enabled", "disabled"}, SetUserStatus(u, status)
      PROVE  Quiet
  BY <1>4, SetUserStatusDoes DEF Quiet
<1>5. CASE ScheduleSteps
  BY <1>5, ScheduleStepsDo DEF Quiet
<1>6. CASE UNCHANGED vars
  BY <1>6 DEF Quiet, vars, ram, store, data
<1> QED
  BY <1>1, <1>2, <1>3, <1>4, <1>5, <1>6 DEF Next, ScheduleSteps

LEMMA StoredStep ==
  ASSUME OpInv, TypeInv, Stored, [Next]_vars, upset' \cap (Broken \cup {"reset"}) = {}
  PROVE  Stored'
<1>1. OpInv' /\ TypeInv'
  BY OpStep, TypeStep
<1>2. \A what \in Broken \cup {"reset"} : what \notin upset'
  OBVIOUS
<1>3. CASE Quiet
  BY <1>3 DEF Quiet, Stored, At, Erasing, data
<1>4. CASE SetUser
  <2>1. /\ op.u \in Users /\ op.user \in UserSet /\ op.at = "setUser" /\ op'.at = "userIdx"
        /\ user' = [user EXCEPT ![op.u] = op.user] /\ sUser' = [sUser EXCEPT ![op.u] = op.user]
        /\ ToSet(userIdx') = ToSet(userIdx) \cup {op.u}
        /\ UNCHANGED <<credIdx, sCred, sCredIdx>>
    BY <1>2, <1>4, SetUserDoes DEF Broken
  <2>2. op.user # None
    BY <2>1, NoneIsNothing
  <2>3. \A u \in Users : user[u] = IF u \in ToSet(userIdx) /\ sUser[u] # None THEN sUser[u] ELSE NoUser
    BY <2>1 DEF Stored, Erasing
  <2>4. \A u \in Users : user'[u] = IF u \in ToSet(userIdx') /\ sUser'[u] # None THEN sUser'[u] ELSE NoUser
    <3>1. ASSUME NEW u \in Users, u # op.u
          PROVE  user'[u] = user[u] /\ sUser'[u] = sUser[u] /\ (u \in ToSet(userIdx') <=> u \in ToSet(userIdx))
      BY <2>1, <3>1 DEF TypeInv
    <3>2. user'[op.u] = op.user /\ sUser'[op.u] = op.user /\ op.u \in ToSet(userIdx')
      BY <2>1 DEF TypeInv
    <3> QED
      BY <2>2, <2>3, <3>1, <3>2
  <2> QED
    BY <2>1, <2>4 DEF Stored, At, Erasing
<1>5. CASE StoreUserIndexes
  <2>1. /\ UNCHANGED <<user, userIdx, credIdx, sUser, sCred, sCredIdx>> /\ sUserIdx' = userIdx
        /\ op.at = "userIdx" /\ op'.at \in {"idle", "setCred"}
    BY <1>2, <1>5, StoreUserIndexesDoes, ContinueDoes, OpType DEF Broken
  <2>2. Listed(sUserIdx') = userIdx
    BY <2>1, NoneIsNothing DEF Listed, TypeInv
  <2> QED
    BY <2>1, <2>2 DEF Stored, At, Erasing
<1>6. CASE SetCredential
  <2>1. PICK new \in CredSet :
          /\ op.c \in Creds /\ op.at = "setCred" /\ op'.at = "credIdx"
          /\ sCred' = [sCred EXCEPT ![op.c] = new]
          /\ ToSet(credIdx') = ToSet(credIdx) \cup {op.c}
          /\ UNCHANGED <<user, userIdx, sUser, sUserIdx, sCredIdx>>
    BY <1>2, <1>6, SetCredentialDoes DEF Broken
  <2>2. new # None
    BY NoneIsNothing
  <2>3. \A c \in Creds : sCred[c] # None \/ c = op.c => sCred'[c] # None
    BY <2>1, <2>2 DEF TypeInv
  <2>4. ToSet(credIdx) \subseteq Creds /\ ToSet(Listed(sCredIdx)) \subseteq Creds
    BY ListedFacts DEF TypeInv, Lists, ToSet
  <2> QED
    BY <2>1, <2>3, <2>4 DEF Stored, At, Erasing
<1>7. CASE StoreCredentialIndexes
  <2>1. /\ UNCHANGED <<user, userIdx, credIdx, sUser, sCred, sUserIdx>> /\ sCredIdx' = credIdx
        /\ op.at = "credIdx" /\ op'.at \in {"idle", "setUser"}
    BY <1>2, <1>7, StoreCredentialIndexesDoes, ContinueDoes, OpType DEF Broken
  <2>2. Listed(sCredIdx') = credIdx
    BY <2>1, NoneIsNothing DEF Listed, TypeInv
  <2> QED
    BY <2>1, <2>2 DEF Stored, At, Erasing
<1>8. CASE FactoryReset
  BY <1>8, FactoryResetDoes DEF Stored, At, Erasing, data
<1>9. CASE RemoveNext
  <2>1. PICK what \in {"user", "cred", "schedule"}, i \in Users \cup Creds \cup Schedules \cup {0} :
          /\ Without(what, i)
          /\ ToSet(op.todo) = {<<what, i>>} \cup ToSet(op'.todo)
          /\ op.at = "remove" /\ op'.at = "remove"
    BY <1>2, <1>9, RemoveNextDoes DEF Broken
  <2>2. /\ (sUserIdx' = sUserIdx /\ ~(what = "user" /\ i = 0)) \/ sUserIdx' = None
        /\ (sCredIdx' = sCredIdx /\ ~(what = "cred" /\ i = 0)) \/ sCredIdx' = None
    BY <2>1 DEF Without
  <2>3. /\ Listed(sUserIdx) = <<>> \/ <<"user", 0>> \in ToSet(op.todo)
        /\ Listed(sCredIdx) = <<>> \/ <<"cred", 0>> \in ToSet(op.todo)
    BY <2>1 DEF Stored, Erasing
  <2>4. /\ Listed(sUserIdx') = <<>> \/ <<"user", 0>> \in ToSet(op'.todo)
        /\ Listed(sCredIdx') = <<>> \/ <<"cred", 0>> \in ToSet(op'.todo)
    BY <2>1, <2>2, <2>3, EmptyList
  <2> QED
    BY <2>1, <2>4 DEF Stored, At, Erasing
<1>10. CASE InitializeAll
  <2>1. /\ op.at = "remove" /\ op'.at = "reboot" /\ op.todo = <<>> /\ op'.todo = <<>>
        /\ UNCHANGED <<sCred, sUserIdx, sCredIdx>>
    BY <1>10, InitializeAllDoes
  <2>2. Listed(sUserIdx) = <<>> /\ Listed(sCredIdx) = <<>>
    BY <2>1, EmptyList DEF Stored, Erasing
  <2> QED
    BY <2>1, <2>2, EmptyList DEF Stored, At, Erasing
<1>11. CASE Restart
  BY <1>2, <1>11, RestartDoes DEF Stored, At, Erasing
<1> QED
  BY <1>3, <1>4, <1>5, <1>6, <1>7, <1>8, <1>9, <1>10, <1>11, DataSteps

LEMMA UnlistedStep ==
  ASSUME OpInv, TypeInv, Stored, Unlisted, [Next]_vars, upset' \cap (Broken \cup {"reset"}) = {}
  PROVE  Unlisted'
<1>1. OpInv'
  BY OpStep
<1>2. \A what \in Broken \cup {"reset"} : what \notin upset'
  OBVIOUS
<1> USE DEF At
(* Only a user of the list is there, and only one that is there is disabled.  *)
<1>3. op.at = "idle" => \A u \in Users : user[u].status # "available" => u \in ToSet(userIdx)
  BY OpType DEF Stored, Erasing
<1>4. ASSUME op'.at \in {"idle", "schedIdx", "remove", "reboot"}, op'.then = "idle"
      PROVE  Unlisted'
  BY <1>4 DEF Unlisted
<1>5. ASSUME NEW u \in Users, NEW c \in Creds, NEW x \in Secrets, AddCredential(u, c, x)
      PROVE  Unlisted'
  <2>1. op'.at = "setUser" /\ op'.then = "setCred" /\ op'.user.status = "enabled"
    BY <1>5, AddCredentialDoes
  <2> QED
    BY <2>1 DEF Unlisted
<1>6. ASSUME NEW c \in Creds, NEW x \in Secrets, ModifyCredential(c, x)
      PROVE  Unlisted'
  BY <1>6, ModifyCredentialDoes DEF Unlisted
<1>7. ASSUME NEW c \in Creds, ClearCredential(c)
      PROVE  Unlisted'
  <2>1. /\ op.at = "idle" /\ UNCHANGED data /\ Owner(c) \in Users
        /\ op'.at = "setCred" /\ op'.u = Owner(c)
        /\ op'.user.status = "disabled" => user[Owner(c)].status = "disabled"
    BY <1>7, ClearCredentialDoes
  <2>2. op'.user.status = "disabled" => Owner(c) \in ToSet(userIdx)
    BY <1>3, <2>1
  <2> QED
    BY <2>1, <2>2 DEF Unlisted, data
<1>8. ASSUME NEW u \in Users, NEW status \in {"enabled", "disabled"}, SetUserStatus(u, status)
      PROVE  Unlisted'
  <2>1. /\ op.at = "idle" /\ UNCHANGED data /\ user[u].status # "available"
        /\ op'.at = "setUser" /\ op'.u = u
    BY <1>8, SetUserStatusDoes
  <2>2. u \in ToSet(userIdx)
    BY <1>3, <2>1
  <2> QED
    BY <2>1, <2>2 DEF Unlisted, data
<1>9. CASE ScheduleSteps
  BY <1>4, <1>9, ScheduleStepsDo
<1>10. CASE SetUser
  <2>1. /\ op.u \in Users /\ op.at = "setUser" /\ op'.at = "userIdx" /\ op'.u = op.u
        /\ user' = [user EXCEPT ![op.u] = op.user]
        /\ ToSet(userIdx') = ToSet(userIdx) \cup {op.u} /\ UNCHANGED sUserIdx
    BY <1>2, <1>10, SetUserDoes DEF Broken
  <2>2. op'.then # "setUser"
    BY <1>1, <2>1 DEF OpInv
  <2>3. Listed(sUserIdx) = userIdx
    BY <2>1 DEF Stored, Erasing
  <2>4. user'[op.u].status = "disabled" => op.u \in ToSet(userIdx)
    BY <2>1 DEF Unlisted, TypeInv
  <2> QED
    BY <2>1, <2>2, <2>3, <2>4 DEF Unlisted
<1>11. CASE StoreUserIndexes
  <2>1. op'.at \in {"idle", "setCred"} /\ op'.then = "idle"
    BY <1>11, StoreUserIndexesDoes, ContinueDoes, OpType
  <2> QED
    BY <2>1 DEF Unlisted
<1>12. CASE SetCredential
  <2>1. /\ op.at = "setCred" /\ op'.at = "credIdx" /\ UNCHANGED <<userIdx, sCredIdx>>
        /\ ToSet(credIdx') = ToSet(credIdx) \cup {op.c}
        /\ op'.then = op.then /\ op'.u = op.u /\ op'.c = op.c /\ op'.user = op.user
    <3>1. op'.at = "credIdx" /\ op.then \in {"idle", "setUser"}
      BY <1>2, <1>12, SetCredentialDoes DEF Broken
    <3>2. op'.at = "credIdx" => op'.then = op.then /\ op'.u = op.u /\ op'.c = op.c /\ op'.user = op.user
      BY <1>12, <3>1, SetCredentialDoes, ContinueDoes, OpType
    <3> QED
      BY <1>12, <3>1, <3>2, SetCredentialDoes
  <2>2. Listed(sCredIdx) = credIdx
    BY <2>1 DEF Stored, Erasing
  <2> QED
    BY <2>1, <2>2 DEF Unlisted
<1>13. CASE StoreCredentialIndexes
  <2>1. UNCHANGED userIdx /\ \/ op' = NoOp
                             \/ op.then = "setUser" /\ op'.at = "setUser" /\ op'.then = "idle"
                                /\ op'.u = op.u /\ op'.user = op.user
    BY <1>13, StoreCredentialIndexesDoes, ContinueDoes
  <2> QED
    BY <2>1, OpType DEF Unlisted
<1>14. CASE FactoryReset
  BY <1>4, <1>14, FactoryResetDoes
<1>15. CASE RemoveNext
  BY <1>2, <1>4, <1>15, RemoveNextDoes DEF Broken
<1>16. CASE InitializeAll
  BY <1>4, <1>16, InitializeAllDoes
<1>17. CASE Restart
  BY <1>4, <1>17, RestartDoes
<1>18. CASE UNCHANGED vars
  BY <1>18 DEF Unlisted, vars, ram, store
<1> QED
  BY <1>5, <1>6, <1>7, <1>8, <1>9, <1>10, <1>11, <1>12, <1>13, <1>14, <1>15, <1>16, <1>17, <1>18
     DEF Next, ScheduleSteps

LEMMA LoadedStep ==
  ASSUME OpInv, TypeInv, Stored, Loaded, [Next]_vars, upset' \cap (Broken \cup {"reset", "load"}) = {}
  PROVE  Loaded'
<1>1. \A what \in Broken \cup {"reset", "load"} : what \notin upset'
  OBVIOUS
<1>2. CASE Quiet
  BY <1>2 DEF Quiet, Loaded, Erasing, data
<1>3. CASE SetUser
  <2>1. op.at = "setUser" /\ UNCHANGED <<cred, credIdx, sCred>>
    BY <1>3, SetUserDoes
  <2> QED
    BY <2>1 DEF Loaded, Erasing
<1>4. CASE StoreUserIndexes
  <2>1. op.at = "userIdx" /\ UNCHANGED <<cred, credIdx, sCred>>
    BY <1>4, StoreUserIndexesDoes
  <2> QED
    BY <2>1 DEF Loaded, Erasing
<1>5. CASE SetCredential
  <2>1. PICK new \in CredSet :
          /\ op.c \in Creds /\ op.at = "setCred"
          /\ cred' = [cred EXCEPT ![op.c] = new] /\ sCred' = [sCred EXCEPT ![op.c] = new]
          /\ ToSet(credIdx') = ToSet(credIdx) \cup {op.c}
    BY <1>1, <1>5, SetCredentialDoes DEF Broken
  <2>2. \A c \in Creds : cred[c] = IF c \in ToSet(credIdx) THEN sCred[c] ELSE NoCred
    BY <2>1 DEF Loaded, Erasing
  <2>3. \A c \in Creds : cred'[c] = IF c \in ToSet(credIdx') THEN sCred'[c] ELSE NoCred
    BY <2>1, <2>2 DEF TypeInv
  <2> QED
    BY <2>3 DEF Loaded
<1>6. CASE StoreCredentialIndexes
  <2>1. op.at = "credIdx" /\ UNCHANGED <<cred, credIdx, sCred>>
    BY <1>6, StoreCredentialIndexesDoes
  <2> QED
    BY <2>1 DEF Loaded, Erasing
<1>7. CASE FactoryReset
  BY <1>7, FactoryResetDoes DEF Loaded, Erasing
<1>8. CASE RemoveNext
  BY <1>1, <1>8, RemoveNextDoes DEF Broken, Loaded, Erasing
<1>9. CASE InitializeAll
  BY <1>9, InitializeAllDoes DEF Loaded, Erasing
<1>10. CASE Restart
  <2>1. \A c \in ToSet(Listed(sCredIdx)) : sCred[c] # None
    BY <1>1, <1>10, RestartDoes DEF Stored
  <2>2. LoadCredentials({}) = [c \in Creds |-> IF c \in ToSet(Listed(sCredIdx)) THEN sCred[c] ELSE NoCred]
    BY <2>1, LoadsStored DEF TypeInv
  <2>3. cred' = LoadCredentials({}) /\ credIdx' = Listed(sCredIdx) /\ UNCHANGED sCred
    BY <1>1, <1>10, RestartDoes
  <2>4. cred' = [c \in Creds |-> IF c \in ToSet(credIdx') THEN sCred'[c] ELSE NoCred]
    BY <2>2, <2>3
  <2> QED
    BY <2>4 DEF Loaded
<1> QED
  BY <1>2, <1>3, <1>4, <1>5, <1>6, <1>7, <1>8, <1>9, <1>10, DataSteps

LEMMA RemovableStep ==
  ASSUME OpInv, TypeInv, Removable, [Next]_vars, upset' \cap (Broken \cup {"cut"}) = {}
  PROVE  Removable'
<1>1. \A what \in Broken \cup {"cut"} : what \notin upset'
  OBVIOUS
<1> USE DEF At
<1>2. CASE Quiet
  BY <1>2 DEF Quiet, Removable, InPlace, Erasing, data
<1>3. CASE SetUser
  <2>1. /\ op.u \in Users /\ op.at = "setUser" /\ op'.at = "userIdx"
        /\ sUser' = [sUser EXCEPT ![op.u] = op.user]
        /\ ToSet(userIdx') = ToSet(userIdx) \cup {op.u}
        /\ UNCHANGED <<credIdx, sCred, sCredIdx>>
    BY <1>1, <1>3, SetUserDoes DEF Broken
  <2> QED
    BY <2>1 DEF Removable, Erasing, TypeInv
<1>4. CASE StoreUserIndexes
  <2>1. /\ op.at = "userIdx" /\ op'.at \in {"idle", "setCred"}
        /\ UNCHANGED <<userIdx, credIdx, sUser, sCred, sCredIdx>> /\ sUserIdx' = userIdx
    BY <1>1, <1>4, StoreUserIndexesDoes, ContinueDoes, OpType DEF Broken
  <2>2. Listed(sUserIdx') = userIdx
    BY <2>1, NoneIsNothing DEF Listed, TypeInv
  <2> QED
    BY <2>1, <2>2 DEF Removable, Erasing
<1>5. CASE SetCredential
  <2>1. PICK new \in CredSet :
          /\ op.c \in Creds /\ op.at = "setCred" /\ op'.at = "credIdx"
          /\ sCred' = [sCred EXCEPT ![op.c] = new]
          /\ ToSet(credIdx') = ToSet(credIdx) \cup {op.c}
          /\ UNCHANGED <<userIdx, sUser, sUserIdx>>
    BY <1>1, <1>5, SetCredentialDoes DEF Broken
  <2> QED
    BY <2>1 DEF Removable, Erasing, TypeInv
<1>6. CASE StoreCredentialIndexes
  <2>1. /\ op.at = "credIdx" /\ op'.at \in {"idle", "setUser"}
        /\ UNCHANGED <<userIdx, credIdx, sUser, sCred, sUserIdx>> /\ sCredIdx' = credIdx
    BY <1>1, <1>6, StoreCredentialIndexesDoes, ContinueDoes, OpType DEF Broken
  <2>2. Listed(sCredIdx') = credIdx
    BY <2>1, NoneIsNothing DEF Listed, TypeInv
  <2> QED
    BY <2>1, <2>2 DEF Removable, Erasing
<1>7. CASE FactoryReset
  <2>1. /\ op.at = "idle" /\ op'.at = "remove" /\ UNCHANGED data /\ Order(op'.todo)
        /\ \A u \in ToSet(userIdx) : <<"user", u>> \in ToSet(op'.todo)
        /\ \A c \in ToSet(credIdx) : <<"cred", c>> \in ToSet(op'.todo)
    BY <1>7, FactoryResetDoes
  <2> QED
    BY <2>1 DEF Removable, Erasing, data
<1>8. CASE RemoveNext
  <2>1. PICK what \in {"user", "cred", "schedule"}, i \in Users \cup Creds \cup Schedules \cup {0} :
          /\ Without(what, i)
          /\ ToSet(op.todo) = {<<what, i>>} \cup ToSet(op'.todo)
          /\ Order(op.todo) =>
                /\ Order(op'.todo)
                /\ what # "user" \/ i = 0 => \A u \in Users : <<"user", u>> \notin ToSet(op.todo)
                /\ what = "cred" /\ i = 0 => \A c \in Creds : <<"cred", c>> \notin ToSet(op'.todo)
    BY <1>1, <1>8, RemoveNextDoes DEF Broken
  <2>2. op.at = "remove" /\ op'.at = "remove" /\ UNCHANGED credIdx
    BY <1>1, <1>8, RemoveNextDoes DEF Broken
  <2>3. /\ \A u \in Users : sUser[u] # None => <<"user", u>> \in ToSet(op.todo) /\ u \in ToSet(Listed(sUserIdx))
        /\ \A c \in Creds : sCred[c] # None => <<"cred", c>> \in ToSet(op.todo) /\ c \in ToSet(Listed(sCredIdx))
        /\ Order(op.todo) /\ (InPlace => Listed(sCredIdx) = credIdx)
    BY <2>2 DEF Removable, Erasing
  <2>4. /\ what # "user" \/ i = 0 => \A u \in Users : sUser[u] = None
        /\ what = "cred" /\ i = 0 => \A c \in Creds : sCred'[c] = None
    <3>1. 0 \notin Creds
      BY IndicesAssumption
    <3> QED
      BY <2>1, <2>3, <3>1 DEF Without
  <2>5. ASSUME NEW u \in Users, sUser'[u] # None
        PROVE  <<"user", u>> \in ToSet(op'.todo) /\ u \in ToSet(Listed(sUserIdx'))
    <3>1. what = "user" /\ i # 0 /\ i # u /\ sUser[u] # None /\ sUserIdx' = sUserIdx
      BY <2>1, <2>4, <2>5 DEF Without, TypeInv
    <3> QED
      BY <2>1, <2>3, <3>1
  <2>6. ASSUME NEW c \in Creds, sCred'[c] # None
        PROVE  <<"cred", c>> \in ToSet(op'.todo) /\ c \in ToSet(Listed(sCredIdx'))
    <3>1. ~(what = "cred" /\ i \in {0, c}) /\ sCred[c] # None /\ sCredIdx' = sCredIdx
      BY <2>1, <2>4, <2>6 DEF Without, TypeInv
    <3> QED
      BY <2>1, <2>3, <3>1
  <2>7. ASSUME InPlace' PROVE Listed(sCredIdx') = credIdx
    <3>1. PICK u \in Users : <<"user", u>> \in ToSet(op'.todo)
      BY <2>2, <2>7 DEF InPlace, Erasing
    <3>2. what = "user" /\ i # 0 /\ InPlace
      BY <2>1, <2>3, <3>1 DEF InPlace
    <3> QED
      BY <2>1, <2>3, <3>2 DEF Without
  <2> QED
    BY <2>1, <2>2, <2>3, <2>5, <2>6, <2>7 DEF Removable, Erasing
<1>9. CASE InitializeAll
  <2>1. /\ op.at = "remove" /\ op'.at = "reboot" /\ op.todo = <<>> /\ op'.todo = <<>>
        /\ UNCHANGED <<sUser, sCred>>
    BY <1>9, InitializeAllDoes
  <2>2. (\A u \in Users : sUser[u] = None) /\ \A c \in Creds : sCred[c] = None
    BY <2>1, EmptyList DEF Removable, Erasing
  <2>3. Order(<<>>)
    BY DEF Order
  <2>4. ~InPlace'
    BY <2>1, EmptyList DEF InPlace, Erasing
  <2> QED
    BY <2>1, <2>2, <2>3, <2>4 DEF Removable, Erasing
<1>10. CASE Restart
  <2>1. /\ op.at \in {"idle", "remove", "reboot"} /\ op'.at = "idle"
        /\ UNCHANGED <<sUser, sCred, sUserIdx, sCredIdx>>
        /\ userIdx' = Listed(sUserIdx) /\ credIdx' = Listed(sCredIdx)
    BY <1>1, <1>10, RestartDoes
  <2> QED
    BY <2>1 DEF Removable, Erasing
<1> QED
  BY <1>2, <1>3, <1>4, <1>5, <1>6, <1>7, <1>8, <1>9, <1>10, DataSteps

(* A credential that is set is nobody's copy, and none is a copy of it.       *)
LEMMA SetCredentialKeepsCopies ==
  ASSUME OpInv, TypeInv, SecretInv, Kept, SetCredential, "cred" \notin upset'
  PROVE  /\ \A c \in Creds : sCred'[c] # None => cred'[c] = sCred'[c]
         /\ \A c, d \in Creds : sCred'[c] # None /\ sCred'[c].status = "occupied" /\ sCred'[d] = sCred'[c] => c = d
         /\ Copies'
<1> DEFINE k == op.c
<1>1. PICK new \in CredSet :
        /\ k \in Creds /\ op.at = "setCred"
        /\ new.status = IF op.clear THEN "available" ELSE "occupied"
        /\ ~op.clear => new.secret = op.secret
        /\ cred' = [cred EXCEPT ![k] = new] /\ sCred' = [sCred EXCEPT ![k] = new]
        /\ credIdx' = AddIndex(credIdx, k)
  BY SetCredentialDoes
<1>2. new # None
  BY NoneIsNothing
<1>3. /\ cred'[k] = new /\ \A c \in Creds : c # k => cred'[c] = cred[c]
      /\ sCred'[k] = new /\ \A c \in Creds : c # k => sCred'[c] = sCred[c]
  BY <1>1 DEF TypeInv
<1>4. /\ \A c \in Creds : sCred[c] # None => cred[c] = sCred[c]
      /\ \A c, d \in Creds : sCred[c] # None /\ sCred[c].status = "occupied" /\ sCred[d] = sCred[c] => c = d
      /\ Copies
      /\ sCred[k] = None => cred[k].status = "available"
  BY <1>1 DEF Kept, Copies, InPlace, Erasing, At
<1>5. new.status = "occupied" => \A c \in Creds : cred[c] # new
  BY <1>1 DEF SecretInv, At
<1> HIDE DEF k
<1>6. \A c \in Creds : sCred'[c] # None => cred'[c] = sCred'[c]
  BY <1>3, <1>4
<1>7. \A c, d \in Creds : sCred'[c] # None /\ sCred'[c].status = "occupied" /\ sCred'[d] = sCred'[c] => c = d
  <2> SUFFICES ASSUME NEW c \in Creds, NEW d \in Creds, c # d,
                      sCred'[c] # None, sCred'[c].status = "occupied", sCred'[d] = sCred'[c]
               PROVE  FALSE
    OBVIOUS
  <2>1. CASE c = k
    <3>1. sCred[d] = new /\ new.status = "occupied" /\ sCred[d] # None
      BY <1>2, <1>3, <2>1
    <3> QED
      BY <1>4, <1>5, <3>1
  <2>2. CASE d = k
    <3>1. sCred[c] = new /\ new.status = "occupied" /\ sCred[c] # None
      BY <1>2, <1>3, <2>2
    <3> QED
      BY <1>4, <1>5, <3>1
  <2>3. CASE c # k /\ d # k
    <3>1. sCred[c] # None /\ sCred[c].status = "occupied" /\ sCred[d] = sCred[c]
      BY <1>3, <2>3
    <3> QED
      BY <1>4, <3>1
  <2> QED
    BY <2>1, <2>2, <2>3
<1>8. Copies'
  <2>1. /\ credIdx \in Seq(Creds) /\ Len(credIdx) \in Nat /\ DOMAIN credIdx = 1 .. Len(credIdx)
        /\ \A p \in 1 .. Len(credIdx) : credIdx[p] \in Creds
    BY DEF TypeInv, Lists
  <2>2. /\ \A p \in DOMAIN credIdx : p \in DOMAIN credIdx' /\ credIdx'[p] = credIdx[p]
        /\ \A p \in DOMAIN credIdx' : p \in DOMAIN credIdx \/ credIdx'[p] = k
    <3>1. CASE credIdx' = credIdx
      BY <3>1
    <3>2. CASE credIdx' = Append(credIdx, k)
      <4> DEFINE n == Len(credIdx) + 1
      <4>1. /\ DOMAIN credIdx' = 1 .. n /\ n \in Nat
            /\ \A p \in 1 .. n : credIdx'[p] = IF p = n THEN k ELSE credIdx[p]
        BY <2>1, <3>2
      <4>2. \A p \in 1 .. n : p = n \/ p \in 1 .. Len(credIdx)
        BY <2>1
      <4>3. \A p \in 1 .. Len(credIdx) : p \in 1 .. n /\ p # n
        BY <2>1
      <4> HIDE DEF n
      <4> QED
        BY <2>1, <4>1, <4>2, <4>3
    <3> QED
      BY <1>1, <3>1, <3>2 DEF AddIndex
  <2> SUFFICES ASSUME NEW p \in DOMAIN credIdx', NEW q \in DOMAIN credIdx',
                      sCred'[credIdx'[p]] = None, cred'[credIdx'[p]].status = "occupied",
                      sCred'[credIdx'[q]] # None, cred'[credIdx'[q]] = cred'[credIdx'[p]]
               PROVE  q < p /\ \A r \in q + 1 .. p :
                         sCred'[credIdx'[r]] = None /\ cred'[credIdx'[r]].status = "occupied"
    BY DEF Copies
  <2>3. credIdx'[p] # k
    BY <1>2, <1>3
  <2>4. /\ p \in DOMAIN credIdx /\ credIdx[p] \in Creds /\ credIdx[p] # k /\ credIdx'[p] = credIdx[p]
        /\ sCred[credIdx[p]] = None /\ cred[credIdx[p]].status = "occupied"
    BY <1>3, <2>1, <2>2, <2>3
  <2>5. credIdx'[q] # k
    <3>1. SUFFICES ASSUME credIdx'[q] = k PROVE FALSE
      OBVIOUS
    <3>2. new = cred[credIdx[p]]
      BY <1>3, <2>4, <3>1
    <3> QED
      BY <1>5, <2>4, <3>2
  <2>6. /\ q \in DOMAIN credIdx /\ credIdx[q] \in Creds /\ credIdx[q] # k /\ credIdx'[q] = credIdx[q]
        /\ sCred[credIdx[q]] # None /\ cred[credIdx[q]] = cred[credIdx[p]]
    BY <1>3, <2>1, <2>2, <2>4, <2>5
  <2>7. q < p /\ \A r \in q + 1 .. p : sCred[credIdx[r]] = None /\ cred[credIdx[r]].status = "occupied"
    BY <1>4, <2>4, <2>6 DEF Copies
  <2>8. ASSUME NEW r \in q + 1 .. p
        PROVE  sCred'[credIdx'[r]] = None /\ cred'[credIdx'[r]].status = "occupied"
    <3>1. r \in DOMAIN credIdx
      BY <2>1, <2>4, <2>6
    <3>2. credIdx'[r] = credIdx[r] /\ credIdx[r] \in Creds
      BY <2>1, <2>2, <3>1
    <3>3. sCred[credIdx[r]] = None /\ cred[credIdx[r]].status = "occupied"
      BY <2>7
    <3>4. credIdx[r] # k
      BY <1>4, <3>3
    <3> QED
      BY <1>3, <3>2, <3>3, <3>4
  <2> QED
    BY <2>7, <2>8
<1> QED
  BY <1>6, <1>7, <1>8

(* What a load copies stays behind what it copies.                            *)
LEMMA RestartKeepsCopies ==
  ASSUME TypeInv, Kept, Removable, Restart, "load" \notin upset', "cut" \notin upset'
  PROVE  /\ \A c \in Creds : sCred[c] # None => cred'[c] = sCred[c]
         /\ \A c \in Creds \ ToSet(credIdx') : cred'[c] = NoCred
         /\ Copies'
<1> DEFINE list == Listed(sCredIdx)
<1>1. list \in Lists(Creds) /\ list \in Seq(Creds) /\ Len(list) \in Nat /\ DOMAIN list = 1 .. Len(list)
      /\ IsInjective(list) /\ \A p \in DOMAIN list : list[p] \in Creds /\ list[p] \in ToSet(list)
  BY ListedFacts DEF TypeInv, Lists, ToSet
<1>2. credIdx' = list /\ cred' = LoadCredentials({}) /\ UNCHANGED sCred
      /\ op.at \in {"idle", "remove", "reboot"}
  BY RestartDoes
<1>3. \A c \in Creds : sCred[c] # None => c \in ToSet(list)
  BY <1>2 DEF Removable, Erasing, At
<1>4. \A c \in ToSet(list) : sCred[c] # None => cred'[c] = sCred[c]
  BY <1>2, LoadsStored DEF TypeInv
<1>5. /\ \A c \in Creds \ ToSet(list) : cred'[c] = NoCred
      /\ \A p, q \in DOMAIN list :
            q <= p /\ sCred[list[q]] # None /\ (\A r \in q + 1 .. p : sCred[list[r]] = None)
            => cred'[list[p]] = sCred[list[q]]
      /\ \A p \in DOMAIN list : cred'[list[p]] # NoCred =>
            \E q \in DOMAIN list : /\ q <= p /\ sCred[list[q]] # None
                                   /\ \A r \in q + 1 .. p : sCred[list[r]] = None
  BY <1>2, LoadFacts DEF TypeInv
<1>6. \A c, d \in Creds : sCred[c] # None /\ sCred[c].status = "occupied" /\ sCred[d] = sCred[c] => c = d
  BY DEF Kept
<1> HIDE DEF list
<1>7. ASSUME NEW p \in DOMAIN list, NEW q \in DOMAIN list,
             sCred[list[p]] = None, cred'[list[p]].status = "occupied",
             sCred[list[q]] # None, cred'[list[q]] = cred'[list[p]]
      PROVE  q < p /\ \A r \in q + 1 .. p : sCred[list[r]] = None /\ cred'[list[r]].status = "occupied"
  <2>1. cred'[list[p]] # NoCred
    BY <1>7, OpType
  <2>2. PICK s \in DOMAIN list : /\ s <= p /\ sCred[list[s]] # None
                                 /\ \A r \in s + 1 .. p : sCred[list[r]] = None
    BY <1>5, <2>1
  <2>3. cred'[list[p]] = sCred[list[s]]
    BY <1>5, <2>2
  <2>4. sCred[list[q]] = sCred[list[s]]
    BY <1>1, <1>4, <1>7, <2>3
  <2>5. list[s] = list[q]
    BY <1>1, <1>6, <1>7, <2>3, <2>4
  <2>6. s = q
    BY <1>1, <2>5 DEF IsInjective
  <2>7. q < p
    BY <1>1, <1>7, <2>2, <2>6
  <2>8. ASSUME NEW r \in q + 1 .. p
        PROVE  sCred[list[r]] = None /\ cred'[list[r]].status = "occupied"
    <3>1. r \in DOMAIN list /\ q <= r
      BY <1>1
    <3>2. \A t \in q + 1 .. r : t \in q + 1 .. p
      BY <1>1
    <3>3. \A t \in q + 1 .. r : sCred[list[t]] = None
      BY <2>2, <2>6, <3>2
    <3>4. cred'[list[r]] = sCred[list[q]]
      BY <1>5, <1>7, <3>1, <3>3
    <3> QED
      BY <1>7, <2>2, <2>3, <2>4, <2>6, <3>4
  <2> QED
    BY <2>7, <2>8
<1>8. Copies'
  BY <1>2, <1>7 DEF Copies
<1>9. \A c \in Creds : sCred[c] # None => cred'[c] = sCred[c]
  BY <1>3, <1>4
<1> QED
  BY <1>2, <1>5, <1>8, <1>9

LEMMA KeptStep ==
  ASSUME OpInv, TypeInv, SecretInv, Removable, Kept, Owned, [Next]_vars,
         upset' \cap (Broken \cup {"cut", "load"}) = {}
  PROVE  Kept'
<1>1. OpInv'
  BY OpStep
<1>2. \A what \in Broken \cup {"cut", "load"} : what \notin upset'
  OBVIOUS
<1> USE DEF At
(* Between commands everything is as it is stored.                            *)
<1>3. op.at \in {"idle", "schedIdx"} =>
        /\ \A c \in Creds : ~Adding(c)
        /\ \A u \in Users : \A c \in user[u].creds : sCred[c] # None
  BY DEF Kept, Adding, InPlace, Erasing, OpInv
<1>4. ASSUME UNCHANGED data, op.at \in {"idle", "schedIdx"},
             op'.at \in {"idle", "schedIdx", "setUser", "setCred"},
             (op'.at = "setCred" \/ op'.then = "setCred") /\ sCred[op'.c] = None
             => cred[op'.c].status = "available"
      PROVE  Kept'
  BY <1>3, <1>4 DEF Kept, Copies, InPlace, Erasing, data
<1>5. ASSUME NEW u \in Users, NEW c \in Creds, NEW x \in Secrets, AddCredential(u, c, x)
      PROVE  Kept'
  BY <1>4, <1>5, AddCredentialDoes
<1>6. ASSUME NEW c \in Creds, NEW x \in Secrets, ModifyCredential(c, x)
      PROVE  Kept'
  BY <1>3, <1>4, <1>6, ModifyCredentialDoes
<1>7. ASSUME NEW c \in Creds, ClearCredential(c)
      PROVE  Kept'
  <2>1. /\ op.at = "idle" /\ UNCHANGED data /\ op'.at = "setCred" /\ op'.c = c
        /\ Owner(c) \in Users /\ c \in user[Owner(c)].creds
    BY <1>7, ClearCredentialDoes
  <2>2. sCred[c] # None
    BY <1>3, <2>1
  <2> QED
    BY <1>4, <2>1, <2>2
<1>8. ASSUME NEW u \in Users, NEW status \in {"enabled", "disabled"}, SetUserStatus(u, status)
      PROVE  Kept'
  BY <1>4, <1>8, SetUserStatusDoes
<1>9. CASE ScheduleSteps
  BY <1>4, <1>9, ScheduleStepsDo
<1>10. CASE SetUser
  <2>1. /\ op.u \in Users /\ op.user \in UserSet /\ op.at = "setUser"
        /\ user' = [user EXCEPT ![op.u] = op.user] /\ sUser' = [sUser EXCEPT ![op.u] = op.user]
        /\ UNCHANGED <<cred, credIdx, sCred>>
        /\ op'.at = "userIdx" /\ op'.then = op.then /\ op'.c = op.c /\ op'.clear = op.clear
    BY <1>2, <1>10, SetUserDoes DEF Broken
  <2>2. op.user # None
    BY <2>1, NoneIsNothing
  <2>3. \A u \in Users : user'[u] = IF sUser'[u] # None THEN sUser'[u] ELSE NoUser
    BY <2>1, <2>2 DEF Kept, Erasing, TypeInv
  <2>4. \A c \in Creds : Adding(c) => Adding(c)'
    BY <2>1 DEF Adding, OpInv
  <2>5. ASSUME NEW u \in Users, NEW c \in user'[u].creds PROVE sCred[c] # None \/ Adding(c)'
    <3>1. CASE c \in user[u].creds
      <4>1. c \in Creds
        BY <3>1 DEF TypeInv, UserSet
      <4> QED
        BY <2>1, <2>4, <3>1, <4>1 DEF Kept, InPlace, Erasing
    <3>2. CASE c \notin user[u].creds
      <4>1. u = op.u /\ c \in op.user.creds
        BY <2>1, <2>5, <3>2 DEF TypeInv
      <4>2. op.then = "setCred" /\ c = op.c
        BY <2>1, <3>2, <4>1 DEF Owned, OpInv, OpSet
      <4> QED
        BY <2>1, <4>2 DEF Adding, OpInv
    <3> QED
      BY <3>1, <3>2
  <2> QED
    BY <2>1, <2>3, <2>5 DEF Kept, Copies, InPlace, Erasing
<1>11. CASE StoreUserIndexes
  <2>1. /\ op.at = "userIdx" /\ op.then \in {"idle", "setCred"}
        /\ UNCHANGED <<user, cred, credIdx, sUser, sCred>>
        /\ \/ op.then = "idle" /\ op'.at = "idle" /\ op'.then = "idle"
           \/ /\ op.then = "setCred" /\ op'.at = "setCred" /\ op'.then = "idle"
              /\ op'.c = op.c /\ op'.clear = op.clear
    BY <1>11, StoreUserIndexesDoes, ContinueDoes, OpType
  <2>2. \A c : Adding(c) => Adding(c)'
    BY <2>1 DEF Adding
  <2> QED
    BY <2>1, <2>2 DEF Kept, Copies, InPlace, Erasing
<1>12. CASE SetCredential
  <2>1. PICK new \in CredSet :
          /\ op.c \in Creds /\ op.at = "setCred" /\ op.then \in {"idle", "setUser"} /\ op'.at = "credIdx"
          /\ cred' = [cred EXCEPT ![op.c] = new] /\ sCred' = [sCred EXCEPT ![op.c] = new]
          /\ ToSet(credIdx') = ToSet(credIdx) \cup {op.c}
          /\ UNCHANGED <<user, sUser>>
    BY <1>2, <1>12, SetCredentialDoes DEF Broken
  <2>2. op'.then \in {"idle", "setUser"}
    BY <1>1, <2>1 DEF OpInv, OpSet
  <2>3. new # None
    BY NoneIsNothing
  <2>4. \A u \in Users : \A c \in user[u].creds : sCred'[c] # None
    <3>1. \A u \in Users : user[u].creds \subseteq Creds
      BY DEF TypeInv, UserSet
    <3> QED
      BY <2>1, <2>3, <3>1 DEF Kept, Adding, InPlace, Erasing, TypeInv
  <2>5. \A c \in Creds \ ToSet(credIdx') : cred'[c] = NoCred
    BY <2>1 DEF Kept, InPlace, Erasing, TypeInv
  <2>6. /\ \A c \in Creds : sCred'[c] # None => cred'[c] = sCred'[c]
        /\ \A c, d \in Creds : sCred'[c] # None /\ sCred'[c].status = "occupied" /\ sCred'[d] = sCred'[c] => c = d
        /\ Copies'
    BY <1>2, <1>12, SetCredentialKeepsCopies DEF Broken
  <2>7. \A u \in Users : user'[u] = IF sUser'[u] # None THEN sUser'[u] ELSE NoUser
    BY <2>1 DEF Kept, Erasing
  <2> QED
    BY <2>1, <2>2, <2>4, <2>5, <2>6, <2>7 DEF Kept, Erasing
<1>13. CASE StoreCredentialIndexes
  <2>1. /\ op.at = "credIdx" /\ op.then \in {"idle", "setUser"}
        /\ UNCHANGED <<user, cred, credIdx, sUser, sCred>>
        /\ op'.at \in {"idle", "setUser"} /\ op'.then = "idle"
    BY <1>13, StoreCredentialIndexesDoes, ContinueDoes, OpType
  <2>2. \A c : ~Adding(c)
    BY <2>1 DEF Adding
  <2> QED
    BY <2>1, <2>2 DEF Kept, Copies, InPlace, Erasing
<1>14. CASE FactoryReset
  <2>1. op.at = "idle" /\ op'.at = "remove" /\ op'.then = "idle" /\ UNCHANGED data
    BY <1>14, FactoryResetDoes
  <2> QED
    BY <1>3, <2>1 DEF Kept, Copies, InPlace, Erasing, data
<1>15. CASE RemoveNext
  <2>1. PICK what \in {"user", "cred", "schedule"}, i \in Users \cup Creds \cup Schedules \cup {0} :
          /\ Without(what, i)
          /\ ToSet(op.todo) = {<<what, i>>} \cup ToSet(op'.todo)
          /\ Order(op.todo) => (what # "user" \/ i = 0 => \A u \in Users : <<"user", u>> \notin ToSet(op.todo))
    BY <1>2, <1>15, RemoveNextDoes DEF Broken
  <2>2. /\ op.at = "remove" /\ op'.at = "remove" /\ op.then = "idle" /\ op'.then = "idle"
        /\ UNCHANGED <<user, cred, credIdx>>
    BY <1>2, <1>15, RemoveNextDoes DEF Broken, OpInv
  <2>3. /\ \A u \in Users : sUser'[u] # None => sUser'[u] = sUser[u]
        /\ \A c \in Creds : sCred'[c] # None => sCred'[c] = sCred[c]
    BY <2>1 DEF Without, TypeInv
  <2>4. InPlace' => InPlace /\ UNCHANGED sCred
    <3>1. SUFFICES ASSUME InPlace' PROVE InPlace /\ UNCHANGED sCred
      OBVIOUS
    <3>2. PICK u \in Users : <<"user", u>> \in ToSet(op'.todo)
      BY <2>2, <3>1 DEF InPlace, Erasing
    <3>3. Order(op.todo)
      BY <2>2 DEF Removable, Erasing
    <3>4. what = "user" /\ InPlace
      BY <2>1, <3>2, <3>3 DEF InPlace
    <3> QED
      BY <2>1, <3>4 DEF Without
  <2>5. \A c : ~Adding(c)
    BY <2>2 DEF Adding
  <2>6. \A u \in Users : sUser'[u] # None => user'[u] = sUser'[u]
    BY <2>2, <2>3 DEF Kept
  <2>7. \A c, d \in Creds : sCred'[c] # None /\ sCred'[c].status = "occupied" /\ sCred'[d] = sCred'[c] => c = d
    <3> SUFFICES ASSUME NEW c \in Creds, NEW d \in Creds, sCred'[c] # None,
                        sCred'[c].status = "occupied", sCred'[d] = sCred'[c]
                 PROVE  c = d
      OBVIOUS
    <3>1. sCred'[c] = sCred[c] /\ sCred'[d] = sCred[d]
      BY <2>3
    <3> QED
      BY <3>1 DEF Kept
  <2>8. ASSUME InPlace'
        PROVE  /\ \A c \in Creds : sCred'[c] # None => cred'[c] = sCred'[c]
               /\ \A c \in Creds \ ToSet(credIdx') : cred'[c] = NoCred
               /\ \A u \in Users : \A c \in user'[u].creds : sCred'[c] # None \/ Adding(c)'
               /\ Copies'
    BY <2>2, <2>4, <2>5, <2>8 DEF Kept, Copies
  <2> QED
    BY <2>2, <2>6, <2>7, <2>8 DEF Kept, Erasing
<1>16. CASE InitializeAll
  <2>1. op'.at = "reboot" /\ op'.then = "idle" /\ op'.todo = <<>> /\ UNCHANGED sCred
    BY <1>16, InitializeAllDoes
  <2>2. ~InPlace'
    BY <2>1, EmptyList DEF InPlace, Erasing
  <2> QED
    BY <2>1, <2>2 DEF Kept, Erasing
<1>17. CASE Restart
  <2>1. /\ UNCHANGED <<sUser, sCred>> /\ op'.at = "idle" /\ op'.then = "idle"
        /\ op.at \in {"idle", "remove", "reboot"}
        /\ \A u \in Users : user'[u] = IF u \in ToSet(Listed(sUserIdx)) /\ sUser[u] # None
                                       THEN sUser[u] ELSE NoUser
    BY <1>2, <1>17, RestartDoes
  <2>2. \A u \in Users : sUser[u] # None =>
          u \in ToSet(Listed(sUserIdx)) /\ user[u] = sUser[u] /\ InPlace
    BY <2>1, EmptyList DEF Removable, Kept, InPlace, Erasing, OpInv
  <2>3. \A u \in Users : user'[u] = IF sUser'[u] # None THEN sUser'[u] ELSE NoUser
    BY <2>1, <2>2
  <2>4. ASSUME NEW u \in Users, NEW c \in user'[u].creds PROVE sCred[c] # None
    <3>1. sUser[u] # None
      BY <2>1, <2>4, OpType
    <3>2. user'[u] = user[u] /\ InPlace
      BY <2>1, <2>2, <3>1
    <3>3. ~Adding(c)
      BY <2>1 DEF Adding, OpInv
    <3> QED
      BY <2>4, <3>2, <3>3 DEF Kept
  <2>5. /\ \A c \in Creds : sCred[c] # None => cred'[c] = sCred[c]
        /\ \A c \in Creds \ ToSet(credIdx') : cred'[c] = NoCred
        /\ Copies'
    BY <1>2, <1>17, RestartKeepsCopies
  <2>6. \A c, d \in Creds : sCred[c] # None /\ sCred[c].status = "occupied" /\ sCred[d] = sCred[c] => c = d
    BY DEF Kept
  <2> QED
    BY <2>1, <2>3, <2>4, <2>5, <2>6 DEF Kept, Erasing
<1>18. CASE UNCHANGED vars
  <2>1. UNCHANGED <<user, cred, credIdx, sUser, sCred, op>>
    BY <1>18 DEF vars, ram, store
  <2>2. InPlace' = InPlace /\ Copies' = Copies /\ \A c : Adding(c)' = Adding(c)
    BY <2>1 DEF InPlace, Erasing, Copies, Adding
  <2> QED
    BY <2>1, <2>2 DEF Kept, Erasing
<1> QED
  BY <1>5, <1>6, <1>7, <1>8, <1>9, <1>10, <1>11, <1>12, <1>13, <1>14, <1>15, <1>16, <1>17, <1>18
     DEF Next, ScheduleSteps

LEMMA OwnedStep ==
  ASSUME OpInv, TypeInv, Removable, Kept, Owned, [Next]_vars,
         upset' \cap (Broken \cup {"cut", "load"}) = {}
  PROVE  Owned'
<1>1. OpInv' /\ TypeInv'
  BY OpStep, TypeStep
<1>2. \A what \in Broken \cup {"cut", "load"} : what \notin upset'
  OBVIOUS
<1> USE DEF At
(* Between commands nobody is adding or clearing a credential.                *)
<1>3. op.at \in {"idle", "schedIdx", "remove", "reboot"} =>
        \A u \in Users : \A c \in user[u].creds : cred[c].status = "occupied"
  BY DEF Owned, Adding, Clearing, OpInv
(* Users who are gone and credentials of nobody make no difference.           *)
<1>4. ASSUME op'.at \in {"idle", "schedIdx", "remove", "reboot"}, op'.then = "idle", UNCHANGED given,
             op.at \in {"idle", "schedIdx", "remove", "reboot"},
             \A u \in Users : user'[u] \in {user[u], NoUser},
             \A u \in Users : \A c \in user'[u].creds : cred'[c] = cred[c]
      PROVE  Owned'
  <2>1. \A u \in Users : user'[u].creds \subseteq user[u].creds
    BY <1>4, OpType
  <2>2. \A u \in Users : user'[u].status = "available" => user'[u].creds = {}
    BY <1>4, OpType DEF Owned
  <2>3. \A u, v \in Users : \A c \in user'[u].creds \cap user'[v].creds : u = v
    BY <2>1 DEF Owned
  <2>4. \A u \in Users : \A c \in user'[u].creds :
          cred'[c].status = "occupied" /\ cred'[c].secret \in Secrets /\ given'[cred'[c].secret] = u
    <3> SUFFICES ASSUME NEW u \in Users, NEW c \in user'[u].creds
                 PROVE  cred'[c].status = "occupied" /\ cred'[c].secret \in Secrets /\ given'[cred'[c].secret] = u
      OBVIOUS
    <3>1. c \in user[u].creds /\ cred'[c] = cred[c]
      BY <1>4, <2>1
    <3> QED
      BY <1>3, <1>4, <3>1 DEF Owned
  <2> QED
    BY <1>4, <2>2, <2>3, <2>4 DEF Owned, Adding, Clearing
<1>5. ASSUME NEW u \in Users, NEW c \in Creds, NEW x \in Secrets, AddCredential(u, c, x)
      PROVE  Owned'
  <2>1. /\ op.at = "idle" /\ cred[c].status = "available" /\ UNCHANGED data
        /\ given' = [given EXCEPT ![x] = u]
    BY <1>5, AddCredentialDoes
  <2>2. \A d \in Creds : cred[d].secret # x
    BY <1>5 DEF AddCredential
  <2>3. /\ op'.at = "setUser" /\ op'.then = "setCred" /\ op'.u = u /\ op'.c = c
        /\ op'.secret = x /\ op'.clear = FALSE
        /\ op'.user.status = "enabled" /\ op'.user.creds = user[u].creds \cup {c}
    BY <1>5, AddCredentialDoes
  <2>4. UNCHANGED <<user, cred>>
    BY <2>1 DEF data
  <2>5. \A v \in Users : c \notin user[v].creds
    BY <1>3, <2>1
  <2>6. \A v \in Users : \A d \in user[v].creds :
           given'[cred[d].secret] = given[cred[d].secret] \/ cred[d].status # "occupied"
    BY <2>1, <2>2 DEF Owned, TypeInv, UserSet
  <2>7. given'[x] = u
    BY <2>1 DEF TypeInv
  <2>8. \A v \in Users : \A d \in user[v].creds : cred[d].status = "occupied"
    BY <1>3, <2>1
  <2> QED
    BY <2>1, <2>3, <2>4, <2>5, <2>6, <2>7, <2>8 DEF Owned, Adding, Clearing
<1>6. ASSUME NEW c \in Creds, NEW x \in Secrets, ModifyCredential(c, x)
      PROVE  Owned'
  <2>1. /\ op.at = "idle" /\ UNCHANGED data /\ given' = [given EXCEPT ![x] = Owner(c)]
        /\ Owner(c) \in Users /\ c \in user[Owner(c)].creds
        /\ op'.at = "setCred" /\ op'.then = "idle" /\ op'.c = c /\ op'.secret = x /\ op'.clear = FALSE
    BY <1>6, ModifyCredentialDoes
  <2>2. \A d \in Creds : cred[d].secret # x
    BY <1>6 DEF ModifyCredential
  <2>3. UNCHANGED <<user, cred>>
    BY <2>1 DEF data
  <2>4. \A v \in Users : c \in user[v].creds => v = Owner(c)
    BY <2>1 DEF Owned
  <2>5. given'[x] = Owner(c)
    BY <2>1 DEF TypeInv
  <2>6. \A v \in Users : \A d \in user[v].creds :
           given'[cred[d].secret] = given[cred[d].secret] \/ cred[d].status # "occupied"
    BY <2>1, <2>2 DEF Owned, TypeInv, UserSet
  <2>7. \A v \in Users : \A d \in user[v].creds : cred[d].status = "occupied"
    BY <1>3, <2>1
  <2> QED
    BY <2>1, <2>3, <2>4, <2>5, <2>6, <2>7 DEF Owned, Adding, Clearing
<1>7. ASSUME NEW c \in Creds, ClearCredential(c)
      PROVE  Owned'
  <2>1. /\ op.at = "idle" /\ UNCHANGED <<data, given>>
        /\ Owner(c) \in Users /\ c \in user[Owner(c)].creds
        /\ op'.at = "setCred" /\ op'.then = "setUser" /\ op'.u = Owner(c) /\ op'.c = c /\ op'.clear = TRUE
        /\ op'.user.creds = user[Owner(c)].creds \ {c}
        /\ op'.user.status = "available" => op'.user.creds = {}
    BY <1>7, ClearCredentialDoes
  <2>2. UNCHANGED <<user, cred>>
    BY <2>1 DEF data
  <2>3. \A v \in Users : \A d \in user[v].creds : cred[d].status = "occupied"
    BY <1>3, <2>1
  <2> QED
    BY <2>1, <2>2, <2>3 DEF Owned, Adding, Clearing
<1>8. ASSUME NEW u \in Users, NEW status \in {"enabled", "disabled"}, SetUserStatus(u, status)
      PROVE  Owned'
  <2>1. /\ op.at = "idle" /\ UNCHANGED <<data, given>>
        /\ op'.at = "setUser" /\ op'.then = "idle" /\ op'.u = u /\ op'.clear = FALSE
        /\ op'.user.creds = user[u].creds /\ op'.user.status # "available"
    BY <1>8, SetUserStatusDoes
  <2>2. UNCHANGED <<user, cred>>
    BY <2>1 DEF data
  <2>3. \A v \in Users : \A d \in user[v].creds : cred[d].status = "occupied"
    BY <1>3, <2>1
  <2> QED
    BY <2>1, <2>2, <2>3 DEF Owned, Adding, Clearing
<1>9. CASE ScheduleSteps
  <2>1. /\ op.at \in {"idle", "schedIdx"} /\ UNCHANGED <<data, given>>
        /\ op'.at \in {"idle", "schedIdx"} /\ op'.then = "idle"
    BY <1>9, ScheduleStepsDo
  <2>2. UNCHANGED <<user, cred>>
    BY <2>1 DEF data
  <2> QED
    BY <1>4, <2>1, <2>2
<1>10. CASE SetUser
  <2>1. /\ op.u \in Users /\ op.user \in UserSet /\ op.at = "setUser"
        /\ user' = [user EXCEPT ![op.u] = op.user]
        /\ UNCHANGED <<cred, given>>
        /\ op'.at = "userIdx" /\ op'.then = op.then /\ op'.u = op.u /\ op'.c = op.c /\ op'.user = op.user
        /\ op'.secret = op.secret /\ op'.clear = op.clear
    BY <1>2, <1>10, SetUserDoes DEF Broken
  <2>2. user'[op.u] = op.user /\ \A v \in Users : v # op.u => user'[v] = user[v]
    BY <2>1 DEF TypeInv
  <2>3. \/ /\ op.then = "setCred" /\ ~op.clear
           /\ op.user.creds \subseteq user[op.u].creds \cup {op.c}
           /\ cred[op.c].status = "available" /\ given[op.secret] = op.u
           /\ \A v \in Users : op.c \in user[v].creds => v = op.u
        \/ /\ op.then = "idle"
           /\ op.user.creds \subseteq user[op.u].creds \ (IF op.clear THEN {op.c} ELSE {})
    BY <2>1 DEF Owned, OpInv, OpSet
  <2>4. \A v \in Users : user'[v].status = "available" => user'[v].creds = {}
    BY <2>1, <2>2 DEF Owned
  <2>5. \A v \in Users : \A c \in user'[v].creds :
           c \in user[v].creds \/ (v = op.u /\ op.then = "setCred" /\ c = op.c)
    <3>1. \/ op.user.creds \subseteq user[op.u].creds
          \/ op.then = "setCred" /\ op.user.creds \subseteq user[op.u].creds \cup {op.c}
      BY <2>3
    <3> TAKE v \in Users
    <3>2. CASE v = op.u
      BY <2>2, <3>1, <3>2
    <3>3. CASE v # op.u
      BY <2>2, <3>3
    <3> QED
      BY <3>2, <3>3
  <2>6. \A v, w \in Users : \A c \in user'[v].creds \cap user'[w].creds : v = w
    BY <2>3, <2>5 DEF Owned
  <2>7. ASSUME NEW v \in Users, NEW c \in user'[v].creds
        PROVE  /\ cred[c].status = "occupied" => cred[c].secret \in Secrets /\ given[cred[c].secret] = v
               /\ cred[c].status = "occupied" \/ (op.c = c /\ op.then = "setCred" /\ ~op.clear)
    <3>1. CASE v = op.u /\ op.then = "setCred" /\ c = op.c
      BY <2>3, <3>1
    <3>2. CASE c \in user[v].creds
      <4>1. ~Clearing(c)
        <5>1. SUFFICES ASSUME Clearing(c) PROVE FALSE
          OBVIOUS
        <5>2. c \in Creds
          BY <3>2 DEF TypeInv, UserSet
        <5>3. c \in user[op.u].creds /\ c = op.c /\ op.clear
          BY <5>1, <5>2 DEF Owned, Clearing
        <5>4. v = op.u
          BY <2>1, <3>2, <5>3 DEF Owned
        <5> QED
          BY <2>2, <2>3, <2>7, <5>3, <5>4
      <4> QED
        BY <2>1, <3>2, <4>1 DEF Owned, Adding
    <3> QED
      BY <2>5, <3>1, <3>2
  <2>8. op.then # "setUser"
    BY <2>1 DEF OpInv
  <2>9. op.then = "setCred" => \A v \in Users : op.c \in user'[v].creds => v = op.u
    BY <2>3, <2>5
  <2> QED
    BY <2>1, <2>3, <2>4, <2>6, <2>7, <2>8, <2>9 DEF Owned, Adding, Clearing
<1>11. CASE StoreUserIndexes
  <2>1. op.at = "userIdx" /\ UNCHANGED <<user, cred, given>> /\ op.then \in {"idle", "setCred"}
    BY <1>11, StoreUserIndexesDoes
  <2>2. CASE op.then = "idle"
    <3>1. op'.at = "idle" /\ op'.then = "idle"
      BY <1>11, <2>2, StoreUserIndexesDoes, ContinueDoes, OpType
    <3> QED
      BY <2>1, <2>2, <3>1 DEF Owned, Adding, Clearing
  <2>3. CASE op.then = "setCred"
    <3>1. /\ op'.at = "setCred" /\ op'.then = "idle" /\ op'.u = op.u /\ op'.c = op.c
          /\ op'.secret = op.secret /\ op'.clear = op.clear /\ ~op.clear
      BY <1>11, <2>3, StoreUserIndexesDoes, ContinueDoes DEF OpInv
    <3> QED
      BY <2>1, <2>3, <3>1 DEF Owned, Adding, Clearing
  <2> QED
    BY <2>1, <2>2, <2>3
<1>12. CASE SetCredential
  <2>1. PICK new \in CredSet :
          /\ op.c \in Creds /\ op.at = "setCred" /\ op'.at = "credIdx"
          /\ new.status = IF op.clear THEN "available" ELSE "occupied"
          /\ ~op.clear => new.secret = op.secret /\ op.secret \in Secrets
          /\ cred' = [cred EXCEPT ![op.c] = new]
          /\ UNCHANGED <<user, given>>
    BY <1>2, <1>12, SetCredentialDoes DEF Broken
  <2>2. /\ op'.then = op.then /\ op'.u = op.u /\ op'.c = op.c /\ op'.user = op.user
        /\ op'.secret = op.secret /\ op'.clear = op.clear /\ op.then \in {"idle", "setUser"}
    <3>1. op'.at = "credIdx" /\ op.then \in {"idle", "setUser"}
      BY <1>12, <2>1, SetCredentialDoes
    <3>2. \/ op'.at # "credIdx"
          \/ /\ op'.then = op.then /\ op'.u = op.u /\ op'.c = op.c /\ op'.user = op.user
             /\ op'.secret = op.secret /\ op'.clear = op.clear
      BY <1>12, <3>1, SetCredentialDoes, ContinueDoes, OpType
    <3> QED
      BY <3>1, <3>2
  <2>3. cred'[op.c] = new /\ \A c \in Creds : c # op.c => cred'[c] = cred[c]
    BY <2>1 DEF TypeInv
  <2>4. ASSUME NEW u \in Users, NEW c \in user[u].creds
        PROVE  /\ cred'[c].status = "occupied" => cred'[c].secret \in Secrets /\ given[cred'[c].secret] = u
               /\ cred'[c].status = "occupied" \/ (c = op.c /\ op.clear)
    <3>1. c \in Creds
      BY DEF TypeInv, UserSet
    <3>2. CASE c = op.c
      <4>1. ~op.clear => given[op.secret] = u
        BY <2>1, <3>2 DEF Owned
      <4>2. /\ new.status = "occupied" => new.secret \in Secrets /\ given[new.secret] = u
            /\ new.status = "occupied" \/ op.clear
        BY <2>1, <4>1
      <4>3. cred'[c] = new
        BY <2>3, <3>2
      <4> QED
        BY <3>2, <4>2, <4>3, Zenon
    <3>3. CASE c # op.c
      <4>1. ~Adding(c) /\ ~Clearing(c)
        BY <3>3 DEF Adding, Clearing
      <4>2. /\ cred[c].status = "occupied" => cred[c].secret \in Secrets /\ given[cred[c].secret] = u
            /\ cred[c].status = "occupied"
        BY <4>1 DEF Owned
      <4>3. cred'[c] = cred[c]
        BY <2>3, <3>1, <3>3
      <4> QED
        BY <4>2, <4>3, Zenon
    <3> QED
      BY <3>2, <3>3
  <2>5. op.clear => op.u \in Users /\ op.c \in user[op.u].creds
    BY <2>1 DEF Owned, Clearing
  <2> QED
    BY <2>1, <2>2, <2>4, <2>5 DEF Owned, Adding, Clearing
<1>13. CASE StoreCredentialIndexes
  <2>1. op.at = "credIdx" /\ UNCHANGED <<user, cred, given>> /\ op.then \in {"idle", "setUser"}
        /\ op.clear = (op.then = "setUser")
    BY <1>13, StoreCredentialIndexesDoes
  <2>2. CASE op.then = "idle"
    <3>1. op'.at = "idle" /\ op'.then = "idle"
      BY <1>13, <2>2, StoreCredentialIndexesDoes, ContinueDoes, OpType
    <3>2. \A c : ~Adding(c) /\ ~Clearing(c) /\ ~Clearing(c)'
      BY <2>1, <2>2, <3>1 DEF Adding, Clearing
    <3> QED
      BY <2>1, <2>2, <3>1, <3>2 DEF Owned
  <2>3. CASE op.then = "setUser"
    <3>1. /\ op'.at = "setUser" /\ op'.then = "idle" /\ op'.u = op.u /\ op'.c = op.c
          /\ op'.user = op.user /\ op'.clear = op.clear /\ op.clear
      BY <1>13, <2>1, <2>3, StoreCredentialIndexesDoes, ContinueDoes
    <3> QED
      BY <2>1, <2>3, <3>1 DEF Owned, Adding, Clearing
  <2> QED
    BY <2>1, <2>2, <2>3
<1>14. CASE FactoryReset
  <2>1. op.at = "idle" /\ op'.at = "remove" /\ op'.then = "idle" /\ UNCHANGED <<data, given>>
    BY <1>14, FactoryResetDoes
  <2>2. UNCHANGED <<user, cred>>
    BY <2>1 DEF data
  <2> QED
    BY <1>4, <2>1, <2>2
<1>15. CASE RemoveNext
  <2>1. /\ op.at = "remove" /\ op'.at = "remove" /\ op'.then = "idle"
        /\ UNCHANGED <<user, cred, given>>
    BY <1>2, <1>15, RemoveNextDoes DEF Broken
  <2> QED
    BY <1>4, <2>1
<1>16. CASE InitializeAll
  <2>1. /\ op.at = "remove" /\ op'.at = "reboot" /\ op'.then = "idle" /\ UNCHANGED given
        /\ \A u \in Users : user'[u] = NoUser
    BY <1>16, InitializeAllDoes
  <2> QED
    BY <1>4, <2>1, OpType
<1>17. CASE Restart
  <2>1. /\ op.at \in {"idle", "remove", "reboot"} /\ op'.at = "idle" /\ op'.then = "idle" /\ UNCHANGED given
        /\ \A u \in Users : user'[u] = IF u \in ToSet(Listed(sUserIdx)) /\ sUser[u] # None
                                       THEN sUser[u] ELSE NoUser
    BY <1>2, <1>17, RestartDoes
  <2>2. \A u \in Users : sUser[u] # None => user[u] = sUser[u] /\ InPlace
    BY <2>1, EmptyList DEF Removable, Kept, InPlace, Erasing, OpInv
  <2>3. \A u \in Users : user'[u] \in {user[u], NoUser}
    BY <2>1, <2>2
  <2>4. \A c \in Creds : sCred[c] # None => cred'[c] = sCred[c]
    BY <1>2, <1>17, RestartKeepsCopies
  <2>5. ASSUME NEW u \in Users, NEW c \in user'[u].creds PROVE cred'[c] = cred[c]
    <3>1. sUser[u] # None /\ user'[u] = sUser[u]
      BY <2>1, <2>5, OpType
    <3>2. user'[u] = user[u] /\ InPlace
      BY <2>2, <3>1
    <3>3. ~Adding(c) /\ c \in Creds
      BY <1>1, <2>1, <2>5 DEF Adding, OpInv, TypeInv, UserSet
    <3>4. sCred[c] # None /\ cred[c] = sCred[c]
      BY <2>5, <3>2, <3>3 DEF Kept
    <3> QED
      BY <2>4, <3>3, <3>4
  <2> QED
    BY <1>4, <2>1, <2>3, <2>5
<1>18. CASE UNCHANGED vars
  BY <1>18 DEF Owned, Adding, Clearing, vars, ram, history
<1> QED
  BY <1>5, <1>6, <1>7, <1>8, <1>9, <1>10, <1>11, <1>12, <1>13, <1>14, <1>15, <1>16, <1>17, <1>18
     DEF Next, ScheduleSteps

-----------------------------------------------------------------------------
(* The theorems.                                                              *)

LEMMA InvInit == Init => IInv
<1> SUFFICES ASSUME Init PROVE IInv
  OBVIOUS
<1>1. OpInv
  BY OpType DEF Init, OpInv, At
<1>2. TypeInv
  BY OpType, EmptyList, FaultsAssumption DEF Init, TypeInv
<1>3. SecretInv /\ Schedule /\ Stored /\ Unlisted /\ Loaded /\ Removable
  BY OpType, EmptyList DEF Init, SecretInv, Schedule, Stored, Unlisted, Loaded, Removable, Erasing, At
<1>4. Owned
  BY OpType DEF Init, Owned, Adding, Clearing, At
<1>5. Kept
  BY OpType DEF Init, Kept, Copies, Erasing, At
<1> QED
  BY <1>1, <1>2, <1>3, <1>4, <1>5 DEF IInv, Unless

LEMMA InvStep == IInv /\ [Next]_vars => IInv'
<1> SUFFICES ASSUME IInv, [Next]_vars PROVE IInv'
  OBVIOUS
<1>1. OpInv' /\ TypeInv' /\ SecretInv' /\ Unless({"schedule"}, Schedule)'
  BY OpStep, TypeStep, SecretStep, ScheduleStep DEF IInv
<1>2. Unless(Broken \cup {"reset"}, Stored /\ Unlisted)'
  BY UpsetGrows, StoredStep, UnlistedStep DEF IInv, Unless
<1>3. Unless(Broken \cup {"reset", "load"}, Loaded)'
  BY UpsetGrows, LoadedStep DEF IInv, Unless
<1>4. Unless(Broken \cup {"cut"}, Removable)'
  BY UpsetGrows, RemovableStep DEF IInv, Unless
<1>5. Unless(Broken \cup {"cut", "load"}, Kept /\ Owned)'
  BY UpsetGrows, KeptStep, OwnedStep DEF IInv, Unless
<1> QED
  BY <1>1, <1>2, <1>3, <1>4, <1>5 DEF IInv

(* Every reachable state satisfies the inductive invariant.                   *)
THEOREM Invariance == Spec => []IInv
<1>1. Init => IInv
  BY InvInit
<1>2. IInv /\ [Next]_vars => IInv'
  BY InvStep
<1> QED
  BY <1>1, <1>2, PTL DEF Spec

LEMMA ErasedFollows == IInv => ErasedStays
<1> SUFFICES ASSUME IInv PROVE ErasedStays
  OBVIOUS
<1>1. TypeOK
  BY DEF IInv, TypeInv, TypeOK, UserSet, CredSet, Lists
<1>2. Unless({"schedule"}, \A i \in cleared : ~sched[i])
  BY DEF IInv, Unless, Schedule
<1>3. Unless({"cut", "user", "userIdx", "cred", "credIdx", "remove"},
             At("reboot") => /\ \A u \in Users : sUser[u] = None
                             /\ \A c \in Creds : sCred[c] = None)
  <2> SUFFICES ASSUME upset \cap (Broken \cup {"cut"}) = {}, At("reboot")
               PROVE  (\A u \in Users : sUser[u] = None) /\ \A c \in Creds : sCred[c] = None
    BY DEF Unless, Broken
  <2>1. Removable /\ op.todo = <<>>
    BY DEF IInv, Unless, OpInv
  <2> QED
    BY <2>1, EmptyList DEF Removable, Erasing, At
<1> QED
  BY <1>1, <1>2, <1>3 DEF ErasedStays

(* What was erased with success stays erased: the schedules that a command    *)
(* cleared, and every user and credential after a factory reset, whatever     *)
(* factory resets were cut before.                                            *)
THEOREM ErasedForGood == Spec => []ErasedStays
BY Invariance, ErasedFollows, PTL

LEMMA RestartFollows == IInv => RestartChangesNothing
<1> SUFFICES ASSUME IInv, upset \cap (Broken \cup {"reset", "schedule", "load"}) = {}, At("idle")
             PROVE  /\ \A u \in Users : user[u] = LoadUser(u)
                    /\ cred = LoadCredentials({})
                    /\ \A i \in Schedules : sched[i] = LoadSchedule(i)
  BY DEF RestartChangesNothing, Unless, Broken
<1>1. Schedule /\ Stored /\ Loaded /\ TypeInv
  BY DEF IInv, Unless
<1>2. \A u \in Users : user[u] = LoadUser(u)
  BY <1>1 DEF Stored, LoadUser, Erasing, At
<1>3. cred = LoadCredentials({})
  <2>1. LoadCredentials({}) = [c \in Creds |-> IF c \in ToSet(credIdx) THEN sCred[c] ELSE NoCred]
    BY <1>1, LoadsStored DEF Stored, TypeInv, Erasing, At
  <2> QED
    BY <1>1, <2>1 DEF Loaded, TypeInv, Erasing, At
<1>4. \A i \in Schedules : sched[i] = LoadSchedule(i)
  BY <1>1 DEF Schedule, LoadSchedule, TypeInv, Erasing, At
<1> QED
  BY <1>2, <1>3, <1>4

(* Between commands RAM holds what a restart would load, whatever commands    *)
(* were cut before.                                                           *)
THEOREM RestartIsNeutral == Spec => []RestartChangesNothing
BY Invariance, RestartFollows, PTL

(* The user who is let in has the first credential with the secret.           *)
Matching(x) == {c \in Creds : cred[c].status = "occupied" /\ cred[c].secret = x}
LetsIn(x, c) == /\ c \in Matching(x) /\ \A d \in Matching(x) : c <= d
                /\ Owner(c) # 0 /\ user[Owner(c)].status = "enabled"

LEMMA ValidateFacts ==
  \A x : /\ ValidateCredential(x) # 0 => \E c \in Creds : LetsIn(x, c) /\ ValidateCredential(x) = Owner(c)
         /\ (\E c \in Creds : LetsIn(x, c)) => ValidateCredential(x) # 0
<1> TAKE x
<1> DEFINE first == CHOOSE c \in Matching(x) : \A d \in Matching(x) : c <= d
<1>1. ValidateCredential(x) =
        IF Matching(x) = {} \/ Owner(first) = 0 THEN 0
        ELSE IF user[Owner(first)].status = "enabled" THEN Owner(first) ELSE 0
  BY DEF ValidateCredential, Matching
<1>2. Matching(x) \subseteq Creds /\ Creds \subseteq Nat
  BY IndicesAssumption DEF Matching
<1>3. Matching(x) # {} => first \in Matching(x) /\ \A d \in Matching(x) : first <= d
  <2>1. Matching(x) # {} => \E c \in Matching(x) : \A d \in Matching(x) : c <= d
    BY <1>2, LeastIn
  <2> QED
    BY <2>1
<1> HIDE DEF first
<1>4. ASSUME NEW c \in Creds, LetsIn(x, c) PROVE first = c
  <2>1. c \in Matching(x) /\ \A d \in Matching(x) : c <= d
    BY <1>4 DEF LetsIn
  <2>2. first \in Matching(x) /\ first <= c /\ c <= first
    BY <1>3, <2>1
  <2>3. first \in Nat /\ c \in Nat
    BY <1>2, <2>2
  <2> QED
    BY <2>2, <2>3
<1>5. ASSUME ValidateCredential(x) # 0 PROVE first \in Creds /\ LetsIn(x, first)
  BY <1>1, <1>2, <1>3, <1>5 DEF LetsIn
<1>6. ASSUME NEW c \in Creds, LetsIn(x, c) PROVE ValidateCredential(x) # 0
  BY <1>1, <1>4, <1>6 DEF LetsIn
<1>7. ValidateCredential(x) # 0 => ValidateCredential(x) = Owner(first)
  BY <1>1
<1> QED
  BY <1>5, <1>6, <1>7

(* The same after a step.                                                     *)
LetInFacts ==
    \A x : /\ ValidateCredential(x) # 0 => \E c \in Creds : LetsIn(x, c) /\ ValidateCredential(x) = Owner(c)
           /\ (\E c \in Creds : LetsIn(x, c)) => ValidateCredential(x) # 0
OwnerIsLeast ==
    TypeInv => \A c :
        /\ Owner(c) \in Users \cup {0}
        /\ Owner(c) # 0 => user[Owner(c)].status # "available" /\ c \in user[Owner(c)].creds
        /\ \A w \in Users : user[w].status # "available" /\ c \in user[w].creds => Owner(c) <= w

LEMMA LetInNext == LetInFacts' /\ OwnerIsLeast'
<1>1. LetInFacts
  BY ValidateFacts DEF LetInFacts
<1>2. OwnerIsLeast
  BY OwnerFacts DEF OwnerIsLeast
<1> QED
  BY <1>1, <1>2, PTL

LEMMA OwnerFollows == IInv => OwnerIsCredited
<1> SUFFICES ASSUME IInv, upset \cap (Broken \cup {"cut", "load"}) = {}, NEW x \in Secrets,
                    ValidateCredential(x) # 0
             PROVE  ValidateCredential(x) = given[x]
  BY DEF OwnerIsCredited, Unless, Broken
<1>1. Owned /\ TypeInv
  BY DEF IInv, Unless
<1>2. PICK c \in Creds : LetsIn(x, c) /\ ValidateCredential(x) = Owner(c)
  BY ValidateFacts
<1>3. Owner(c) \in Users /\ c \in user[Owner(c)].creds /\ cred[c].status = "occupied" /\ cred[c].secret = x
  BY <1>1, <1>2, OwnerFacts DEF LetsIn, Matching
<1> QED
  BY <1>1, <1>2, <1>3 DEF Owned

(* A secret lets in the user it was last set for, and nobody else.            *)
THEOREM OwnerIsLetIn == Spec => []OwnerIsCredited
BY Invariance, OwnerFollows, PTL

-----------------------------------------------------------------------------
(* What a restart grants.                                                     *)

(* A restart that loses credentials and users, but no user who is disabled,   *)
(* and no credential whose secret another one has, grants nothing.            *)
LEMMA LossGrantsNothing ==
  ASSUME TypeInv, TypeInv', NEW x,
         \A u \in Users : \/ user'[u] = user[u]
                          \/ user'[u] = NoUser /\ user[u].status # "disabled",
         \A c \in Matching(x)' : cred'[c] = cred[c],
         Matching(x)' # {} => Matching(x) \subseteq Matching(x)',
         ValidateCredential(x)' # 0
  PROVE  ValidateCredential(x) # 0
<1>1. PICK c \in Creds : LetsIn(x, c)'
  BY LetInNext DEF LetInFacts, OwnerIsLeast
<1> DEFINE v == Owner(c)'
           u == Owner(c)
<1>2. /\ c \in Matching(x)' /\ \A d \in Matching(x)' : c <= d
      /\ v # 0 /\ user'[v].status = "enabled"
  BY <1>1 DEF LetsIn
<1>3. /\ v \in Users \cup {0} /\ (v # 0 => user'[v].status # "available" /\ c \in user'[v].creds)
      /\ \A w \in Users : user'[w].status # "available" /\ c \in user'[w].creds => v <= w
  BY LetInNext DEF LetInFacts, OwnerIsLeast
<1>4. /\ u \in Users \cup {0} /\ 0 \notin Users
      /\ (u # 0 => user[u].status # "available" /\ c \in user[u].creds)
      /\ (u = 0 => \A w \in Users : c \in user[w].creds => user[w].status = "available")
      /\ \A w \in Users : user[w].status # "available" /\ c \in user[w].creds => u <= w
  BY OwnerFacts
<1> HIDE DEF u, v
<1>5. v \in Users /\ user[v] = user'[v] /\ user[v].status = "enabled" /\ c \in user[v].creds
  BY <1>2, <1>3, OpType
<1>6. u \in Users /\ u <= v
  BY <1>4, <1>5
<1>7. user[u].status = "enabled"
  <2>1. CASE user'[u] = user[u]
    <3>1. v <= u
      BY <1>3, <1>4, <1>6, <2>1
    <3>2. u = v
      BY <1>5, <1>6, <3>1, IndicesAssumption
    <3> QED
      BY <1>5, <3>2
  <2>2. CASE user[u].status # "disabled"
    BY <1>4, <1>6, <2>2 DEF TypeInv, UserSet
  <2> QED
    BY <1>6, <2>1, <2>2
<1>8. c \in Matching(x)
  BY <1>2 DEF Matching
<1>9. \A d \in Matching(x) : c <= d
  BY <1>2
<1>10. LetsIn(x, c)
  BY <1>4, <1>6, <1>7, <1>8, <1>9 DEF LetsIn, u
<1> QED
  BY <1>10, ValidateFacts

(* A restart that cuts a command.                                             *)
LEMMA CutGrantsNothing ==
  ASSUME OpInv, TypeInv, TypeInv', SecretInv, Stored, Unlisted, Loaded, Restart,
         upset' \cap (Broken \cup {"reset", "load"}) = {}, NEW x \in Secrets, ValidateCredential(x)' # 0
  PROVE  ValidateCredential(x) # 0
<1> USE DEF At
<1>1. \A what \in Broken \cup {"reset", "load"} : what \notin upset'
  OBVIOUS
<1>2. /\ UNCHANGED <<sUser, sCred, sUserIdx, sCredIdx>> /\ op.at # "remove"
      /\ \A u \in Users : user'[u] = IF u \in ToSet(Listed(sUserIdx)) /\ sUser[u] # None
                                     THEN sUser[u] ELSE NoUser
      /\ cred' = LoadCredentials({})
  BY <1>1, RestartDoes
<1>3. LoadCredentials({}) = [c \in Creds |-> IF c \in ToSet(Listed(sCredIdx)) THEN sCred[c] ELSE NoCred]
  BY <1>2, LoadsStored DEF Stored, TypeInv
<1>4. op.at # "reboot"
  <2>1. SUFFICES ASSUME op.at = "reboot" PROVE FALSE
    OBVIOUS
  <2>2. Listed(sUserIdx) = <<>>
    BY <2>1, EmptyList DEF Stored, Erasing, OpInv
  <2>3. \A u \in Users : user'[u] = NoUser
    BY <1>2, <2>2, EmptyList
  <2>4. PICK c \in Creds : LetsIn(x, c)'
    BY LetInNext DEF LetInFacts, OwnerIsLeast
  <2>5. Owner(c)' \in Users /\ user'[Owner(c)'].status = "enabled"
    BY <2>4, LetInNext DEF LetInFacts, OwnerIsLeast, LetsIn
  <2> QED
    BY <2>3, <2>5, OpType
<1>5. ~Erasing
  BY <1>2, <1>4 DEF Erasing
<1>6. /\ \A u \in Users : user[u] = IF u \in ToSet(userIdx) /\ sUser[u] # None THEN sUser[u] ELSE NoUser
      /\ \A c \in Creds : cred[c] = IF c \in ToSet(credIdx) THEN sCred[c] ELSE NoCred
  BY <1>5 DEF Stored, Loaded
<1>7. ASSUME NEW u \in Users
      PROVE  \/ user'[u] = user[u]
             \/ user'[u] = NoUser /\ user[u].status # "disabled"
  <2>1. CASE At("userIdx")
    BY <1>2, <1>6, <2>1 DEF Unlisted
  <2>2. CASE ~At("userIdx")
    BY <1>2, <1>5, <1>6, <2>2 DEF Stored
  <2> QED
    BY <2>1, <2>2
<1>8. ASSUME NEW c \in Creds
      PROVE  cred'[c] = cred[c] \/ (cred'[c] = NoCred /\ c = op.c /\ op.at = "credIdx")
  <2>1. CASE At("credIdx")
    BY <1>2, <1>3, <1>6, <2>1 DEF Unlisted
  <2>2. CASE ~At("credIdx")
    BY <1>2, <1>3, <1>5, <1>6, <2>2 DEF Stored
  <2> QED
    BY <2>1, <2>2
<1>9. \A c \in Matching(x)' : c \in Creds /\ cred'[c] = cred[c] /\ cred'[c].secret = x
  BY <1>8, OpType DEF Matching
<1>10. ASSUME NEW c \in Matching(x)', NEW d \in Matching(x), d \notin Matching(x)' PROVE FALSE
  <2>1. d \in Creds /\ cred[d].status = "occupied" /\ cred[d].secret = x /\ cred'[d] # cred[d]
    BY <1>10 DEF Matching
  <2>2. d = op.c /\ op.at = "credIdx"
    BY <1>8, <2>1
  <2>3. c \in Creds /\ cred[c].secret = x /\ c # d
    BY <1>9, <1>10
  <2> QED
    BY <2>1, <2>2, <2>3 DEF SecretInv
<1>11. Matching(x)' # {} => Matching(x) \subseteq Matching(x)'
  BY <1>10
<1> QED
  BY <1>7, <1>9, <1>11, LossGrantsNothing

(* A restart that cuts a factory reset.                                       *)
LEMMA ResetGrantsNothing ==
  ASSUME OpInv, TypeInv, TypeInv', Removable, Kept, Owned, Restart,
         upset' \cap (Broken \cup {"cut", "load"}) = {}, NEW x \in Secrets, ValidateCredential(x)' # 0
  PROVE  ValidateCredential(x) # 0
<1> USE DEF At
<1>1. \A what \in Broken \cup {"cut", "load"} : what \notin upset'
  OBVIOUS
<1>2. /\ UNCHANGED <<sUser, sCred, sUserIdx, sCredIdx>> /\ op.at \in {"idle", "remove", "reboot"}
      /\ \A u \in Users : user'[u] = IF u \in ToSet(Listed(sUserIdx)) /\ sUser[u] # None
                                     THEN sUser[u] ELSE NoUser
      /\ cred' = LoadCredentials({})
  BY <1>1, RestartDoes
<1>3. PICK c \in Creds : LetsIn(x, c)'
  BY LetInNext DEF LetInFacts, OwnerIsLeast
<1>4. PICK u \in Users : user'[u].status = "enabled" /\ c \in user'[u].creds
  BY <1>3, LetInNext DEF LetInFacts, OwnerIsLeast, LetsIn
<1>5. cred'[c].status = "occupied" /\ cred'[c].secret = x
      /\ \A d \in Creds : cred'[d].status = "occupied" /\ cred'[d].secret = x => c <= d
  BY <1>3 DEF LetsIn, Matching
(* The user is stored, and so are all credentials of the user.                *)
<1>6. sUser[u] # None /\ user'[u] = sUser[u]
  BY <1>2, <1>4, OpType
<1>7. user[u] = sUser[u] /\ InPlace /\ Listed(sCredIdx) = credIdx
  BY <1>2, <1>6, EmptyList DEF Removable, Kept, InPlace, Erasing, OpInv
<1>8. ~Adding(c) /\ ~Clearing(c)
  BY <1>2 DEF Adding, Clearing, OpInv
<1>9. sCred[c] # None /\ cred[c] = sCred[c] /\ c \in user[u].creds
  BY <1>4, <1>6, <1>7, <1>8 DEF Kept
<1>10. cred'[c] = sCred[c]
  BY <1>1, <1>9, RestartKeepsCopies
<1>11. Owner(c) = u
  <2>1. user[u].status = "enabled"
    BY <1>4, <1>6, <1>7
  <2>2. Owner(c) \in Users /\ c \in user[Owner(c)].creds
    BY <1>9, <2>1, OwnerFacts
  <2> QED
    BY <1>9, <2>2 DEF Owned
(* No credential comes first that is not there after the restart.             *)
<1>12. ASSUME NEW d \in Matching(x) PROVE c <= d
  <2>1. d \in Creds /\ cred[d].status = "occupied" /\ cred[d].secret = x
    BY DEF Matching
  <2>2. cred[c] \in CredSet /\ cred[d] \in CredSet /\ cred[c].status = "occupied" /\ cred[c].secret = x
    BY <1>5, <1>9, <1>10, <2>1 DEF TypeInv
  <2>3. cred[d] = cred[c]
    BY <2>1, <2>2 DEF CredSet
  <2>4. CASE sCred[d] # None
    <3>1. sCred[d] = sCred[c]
      BY <1>7, <1>9, <2>1, <2>3, <2>4 DEF Kept
    <3>2. d = c
      BY <1>9, <2>1, <2>2, <3>1 DEF Kept
    <3> QED
      BY <3>2, IndicesAssumption
  <2>5. CASE sCred[d] = None
    <3>1. d \in ToSet(credIdx) /\ c \in ToSet(credIdx)
      BY <1>7, <2>1, <2>2, OpType DEF Kept
    <3>2. PICK p \in DOMAIN credIdx, q \in DOMAIN credIdx : credIdx[p] = d /\ credIdx[q] = c
      BY <3>1 DEF ToSet
    <3>3. q < p /\ \A r \in q + 1 .. p : sCred[credIdx[r]] = None
      BY <1>7, <1>9, <2>1, <2>3, <2>5, <3>2 DEF Kept, Copies
    <3>4. p \in Nat /\ q \in Nat
      BY DEF TypeInv, Lists
    <3>5. LoadCredentials({})[d] = sCred[c]
      BY <1>7, <1>9, <3>2, <3>3, <3>4, LoadFacts DEF TypeInv
    <3> QED
      BY <1>2, <1>5, <1>10, <2>1, <3>5
  <2> QED
    BY <2>4, <2>5
<1>13. c \in Matching(x)
  BY <1>5, <1>9, <1>10 DEF Matching
<1>14. user[u].status = "enabled"
  BY <1>4, <1>6, <1>7
<1>15. LetsIn(x, c)
  BY <1>11, <1>12, <1>13, <1>14, IndicesAssumption DEF LetsIn
<1> QED
  BY <1>15, ValidateFacts

LEMMA GrantStep ==
  ASSUME IInv, IInv', [Next]_vars
  PROVE  [/\ Restart /\ upset' \cap {"user", "userIdx", "cred", "credIdx", "remove", "load"} = {}
          /\ ~ {"cut", "reset"} \subseteq upset'
          => \A x \in Secrets : ValidateCredential(x)' # 0 => ValidateCredential(x) # 0]_vars
<1> SUFFICES ASSUME Restart, upset' \cap (Broken \cup {"load"}) = {}, ~ {"cut", "reset"} \subseteq upset',
                    NEW x \in Secrets, ValidateCredential(x)' # 0
             PROVE  ValidateCredential(x) # 0
  BY DEF Broken
<1>1. upset \subseteq upset' /\ OpInv /\ TypeInv /\ TypeInv' /\ SecretInv
  BY UpsetGrows DEF IInv
<1>2. CASE "reset" \notin upset'
  <2>1. upset' \cap (Broken \cup {"reset", "load"}) = {}
    BY <1>2
  <2>2. Stored /\ Unlisted /\ Loaded
    BY <1>1, <2>1 DEF IInv, Unless
  <2> QED
    BY <1>1, <2>1, <2>2, CutGrantsNothing
<1>3. CASE "cut" \notin upset'
  <2>1. upset' \cap (Broken \cup {"cut", "load"}) = {}
    BY <1>3
  <2>2. Removable /\ Kept /\ Owned
    BY <1>1, <2>1 DEF IInv, Unless
  <2> QED
    BY <1>1, <2>1, <2>2, ResetGrantsNothing
<1> QED
  BY <1>2, <1>3

(* No restart, at any step of any command or factory reset, lets a secret in  *)
(* that was not let in before.                                                *)
THEOREM RestartLetsNobodyIn == Spec => RestartGrantsNothing
<1>1. IInv /\ IInv' /\ [Next]_vars =>
        [/\ Restart /\ upset' \cap {"user", "userIdx", "cred", "credIdx", "remove", "load"} = {}
         /\ ~ {"cut", "reset"} \subseteq upset'
         => \A x \in Secrets : ValidateCredential(x)' # 0 => ValidateCredential(x) # 0]_vars
  BY GrantStep
<1> QED
  BY <1>1, Invariance, PTL DEF Spec, RestartGrantsNothing

=============================================================================
