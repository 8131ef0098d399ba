----------------------------- MODULE MatterAccess -----------------------------
(* The users, credentials and schedules of the Matter lock                    *)
(* (subsys/matter_access): the data in RAM, the items and the lists of        *)
(* indices in persistent storage, and what a restart makes of them.           *)
(*                                                                            *)
(* Everything runs in the Matter thread. A command makes several stores; each *)
(* may fail, and the device may restart between any two of them. Credentials  *)
(* are of one type, schedules of one kind: the code of the others is the      *)
(* same. The credentials of Aliro have their own module, CredentialStore.     *)
(*                                                                            *)
(* External: the Door Lock cluster server of the Matter SDK. A credential is  *)
(* added to its user, then set; it is cleared, then taken from its user. No   *)
(* two credentials have the same secret.                                      *)
EXTENDS Naturals, Sequences, SequencesExt

CONSTANTS
    Users, Creds,  \* indices
    Secrets,
    Schedules,     \* indices
    MaxFaults,     \* bound on the failures of the storage
    Empty,         \* the secret of length 0
    None           \* nothing is stored

ASSUME IndicesAssumption == Users \cup Creds \subseteq Nat \ {0}
ASSUME FaultsAssumption == MaxFaults \in Nat /\ Empty \notin Secrets
ASSUME NoneAssumption ==
    /\ None \notin Seq(Users \cup Creds \cup Schedules) /\ None # TRUE
    /\ None \notin [status: {"available", "enabled", "disabled"}, creds: SUBSET Creds]
    /\ None \notin [status: {"available", "occupied"}, secret: Secrets \cup {Empty}]

VARIABLES
    user, cred,           \* mUsers, mCredentials
    userIdx, credIdx,     \* mUsersIndexes, mCredentialsIndexes
    sched, schedIdx,      \* whether a schedule is occupied, and the indices
    sUser, sCred, sSched, sUserIdx, sCredIdx, sSchedIdx,   \* the storage
    op,                   \* the command that is being carried out
    faults,               \* number of failures so far
    upset,                \* history: what failed; "cut", "reset": a restart cut a
                          \* command, a factory reset
    given,                \* history: the user each secret was last set for
    cleared               \* history: schedules cleared with success since they were set

ram     == <<user, cred, userIdx, credIdx, sched, schedIdx>>
store   == <<sUser, sCred, sSched, sUserIdx, sCredIdx, sSchedIdx>>
history == <<given, cleared>>
vars    == <<ram, store, op, faults, upset, history>>

NoUser == [status |-> "available", creds |-> {}]
NoCred == [status |-> "available", secret |-> Empty]

(* `then` is the call of the server that follows, `todo` what a factory reset *)
(* still has to remove.                                                       *)
NoOp == [at |-> "idle", u |-> 0, c |-> 0, user |-> NoUser, secret |-> Empty,
         clear |-> FALSE, then |-> "idle", todo |-> <<>>]
At(s) == op.at = s
Go(s) == op' = IF s = "idle" THEN NoOp ELSE [op EXCEPT !.at = s]
Call(s, fields) == At("idle") /\ op' = [fields EXCEPT !.at = s]
(* The handler returns true: the server makes the next call, if any.          *)
Continue == op' = IF op.then = "idle" THEN NoOp ELSE [op EXCEPT !.at = op.then, !.then = "idle"]

NoFault == UNCHANGED <<faults, upset>>
Fault(what) ==
    /\ faults < MaxFaults
    /\ faults' = faults + 1
    /\ upset' = upset \cup {what}

(* IndexList::AddIndex. The lists have room for every index.                  *)
AddIndex(list, i) == IF i \in ToSet(list) THEN list ELSE Append(list, i)

(* IndexList::RemoveIndex: what follows the index moves up.                   *)
RemoveIndex(list, i) ==
    IF i \in ToSet(list) THEN RemoveAt(list, CHOOSE p \in DOMAIN list : list[p] = i) ELSE list

(* GetCredentialUserIndex, 0 if no user has the credential.                   *)
Owner(c) ==
    LET Of == {u \in Users : user[u].status # "available" /\ c \in user[u].creds}
    IN IF Of = {} THEN 0 ELSE CHOOSE u \in Of : \A v \in Of : u <= v

(* ValidateCredential: the user who is let in with a secret, 0 if nobody is.  *)
(* Only the first credential with the secret is considered.                   *)
ValidateCredential(x) ==
    LET Of == {c \in Creds : cred[c].status = "occupied" /\ cred[c].secret = x}
        u  == Owner(CHOOSE c \in Of : \A d \in Of : c <= d)
    IN IF Of = {} \/ u = 0 THEN 0 ELSE IF user[u].status = "enabled" THEN u ELSE 0

-----------------------------------------------------------------------------
(* What the storage loads.                                                    *)
Listed(list) == IF list = None THEN <<>> ELSE list

LoadUser(u) == IF u \in ToSet(Listed(sUserIdx)) /\ sUser[u] # None THEN sUser[u] ELSE NoUser

(* A listed credential that is not there, or cannot be read, is deserialised  *)
(* from the buffer of the one loaded before it.                               *)
LoadCredentials(unread) ==
    LET list == Listed(sCredIdx)
        Read(p) == sCred[list[p]] # None /\ list[p] \notin unread
        Before(c) == {p \in DOMAIN list : Read(p) /\ \E q \in p..Len(list) : list[q] = c}
    IN [c \in Creds |->
          IF c \notin ToSet(list) \/ Before(c) = {} THEN NoCred
          ELSE sCred[list[CHOOSE p \in Before(c) : \A q \in Before(c) : q <= p]]]

LoadSchedule(i) == i \in ToSet(Listed(sSchedIdx)) /\ sSched[i] # None

-----------------------------------------------------------------------------
TypeOK ==
    LET UserSet == [status: {"available", "enabled", "disabled"}, creds: SUBSET Creds]
        CredSet == [status: {"available", "occupied"}, secret: Secrets \cup {Empty}]
    IN /\ user \in [Users -> UserSet] /\ sUser \in [Users -> UserSet \cup {None}]
       /\ cred \in [Creds -> CredSet] /\ sCred \in [Creds -> CredSet \cup {None}]
       /\ sched \in [Schedules -> BOOLEAN] /\ sSched \in [Schedules -> {TRUE, None}]
       /\ \A list \in {userIdx, credIdx, schedIdx} : IsInjective(list)
       /\ faults \in 0..MaxFaults
       /\ given \in [Secrets -> Users \cup {0}]
       /\ cleared \subseteq Schedules

Init ==
    /\ user = [u \in Users |-> NoUser] /\ sUser = [u \in Users |-> None]
    /\ cred = [c \in Creds |-> NoCred] /\ sCred = [c \in Creds |-> None]
    /\ sched = [i \in Schedules |-> FALSE] /\ sSched = [i \in Schedules |-> None]
    /\ userIdx = <<>> /\ credIdx = <<>> /\ schedIdx = <<>>
    /\ sUserIdx = None /\ sCredIdx = None /\ sSchedIdx = None
    /\ op = NoOp /\ faults = 0 /\ upset = {}
    /\ given = [x \in Secrets |-> 0] /\ cleared = {}

-----------------------------------------------------------------------------
(* Commands of the server.                                                    *)

Command == NoFault /\ UNCHANGED <<ram, store>>

AddCredential(u, c, x) ==
    /\ cred[c].status = "available" /\ user[u].status # "disabled"
    /\ \A d \in Creds : cred[d].secret # x
    /\ Call("setUser", [NoOp EXCEPT !.u = u, !.c = c, !.secret = x, !.then = "setCred",
           !.user = [status |-> "enabled", creds |-> user[u].creds \cup {c}]])
    /\ given' = [given EXCEPT ![x] = u]
    /\ Command /\ UNCHANGED cleared

ModifyCredential(c, x) ==
    /\ cred[c].status = "occupied" /\ Owner(c) # 0
    /\ \A d \in Creds : cred[d].secret # x
    /\ Call("setCred", [NoOp EXCEPT !.c = c, !.secret = x])
    /\ given' = [given EXCEPT ![x] = Owner(c)]
    /\ Command /\ UNCHANGED cleared

ClearCredential(c) ==
    LET u    == Owner(c)
        rest == user[u].creds \ {c}
    IN /\ cred[c].status = "occupied" /\ u # 0
       /\ Call("setCred", [NoOp EXCEPT !.u = u, !.c = c, !.clear = TRUE, !.then = "setUser",
              !.user = IF rest = {} THEN NoUser ELSE [user[u] EXCEPT !.creds = rest]])
       /\ Command /\ UNCHANGED history

SetUserStatus(u, status) ==
    /\ user[u].status \notin {"available", status}
    /\ Call("setUser", [NoOp EXCEPT !.u = u, !.user = [user[u] EXCEPT !.status = status]])
    /\ Command /\ UNCHANGED history

-----------------------------------------------------------------------------
(* Mutant: only a new user is written to the storage.                         *)
SetUserOnce ==
    /\ At("setUser") /\ Go("userIdx")
    /\ user' = [user EXCEPT ![op.u] = op.user]
    /\ userIdx' = AddIndex(userIdx, op.u)
    /\ sUser' = IF sUser[op.u] = None THEN [sUser EXCEPT ![op.u] = op.user] ELSE sUser
    /\ NoFault
    /\ UNCHANGED <<cred, credIdx, sched, schedIdx, sCred, sSched, sUserIdx, sCredIdx, sSchedIdx, history>>

(* Mutant: a user without credentials is not replaced in RAM.                 *)
SetUserOccupied ==
    /\ At("setUser") /\ Go("userIdx")
    /\ user' = IF op.user = NoUser THEN user ELSE [user EXCEPT ![op.u] = op.user]
    /\ userIdx' = AddIndex(userIdx, op.u)
    /\ sUser' = [sUser EXCEPT ![op.u] = user'[op.u]]
    /\ NoFault
    /\ UNCHANGED <<cred, credIdx, sched, schedIdx, sCred, sSched, sUserIdx, sCredIdx, sSchedIdx, history>>

(* SetUser: RAM first, then the item, then the list. Only a failure of the    *)
(* item is reported, and ends the command.                                    *)
SetUser ==
    /\ At("setUser")
    /\ user' = [user EXCEPT ![op.u] = op.user]
    /\ userIdx' = AddIndex(userIdx, op.u)
    /\ \/ sUser' = [sUser EXCEPT ![op.u] = op.user] /\ Go("userIdx") /\ NoFault
       \/ Fault("user") /\ Go("idle") /\ UNCHANGED sUser
    /\ UNCHANGED <<cred, credIdx, sched, schedIdx, sCred, sSched, sUserIdx, sCredIdx, sSchedIdx, history>>

StoreUserIndexes ==
    /\ At("userIdx")
    /\ \/ sUserIdx' = userIdx /\ NoFault
       \/ Fault("userIdx") /\ UNCHANGED sUserIdx
    /\ Continue
    /\ UNCHANGED <<ram, sUser, sCred, sSched, sCredIdx, sSchedIdx, history>>

(* Mutant: a credential that is set again keeps its secret in storage.        *)
SetCredentialInRam ==
    LET new == [status |-> "occupied", secret |-> op.secret]
    IN /\ At("setCred") /\ Go("credIdx")
       /\ cred' = [cred EXCEPT ![op.c] = IF op.clear THEN NoCred ELSE new]
       /\ credIdx' = AddIndex(credIdx, op.c)
       /\ sCred' = [sCred EXCEPT ![op.c] = IF @ = None \/ op.clear THEN cred'[op.c] ELSE @]
       /\ NoFault
       /\ UNCHANGED <<user, userIdx, sched, schedIdx, sUser, sSched, sUserIdx, sCredIdx, sSchedIdx, history>>

(* DoSetCredential. A secret that is cleared is wiped if a user has the       *)
(* credential. No failure of the storage is reported.                         *)
SetCredential ==
    LET kept == IF Owner(op.c) = 0 THEN cred[op.c].secret ELSE Empty
        new  == IF op.clear THEN [status |-> "available", secret |-> kept]
                            ELSE [status |-> "occupied", secret |-> op.secret]
    IN /\ At("setCred")
       /\ cred' = [cred EXCEPT ![op.c] = new]
       /\ credIdx' = AddIndex(credIdx, op.c)
       /\ \/ sCred' = [sCred EXCEPT ![op.c] = new] /\ Go("credIdx") /\ NoFault
          \/ Fault("cred") /\ Continue /\ UNCHANGED sCred
       /\ UNCHANGED <<user, userIdx, sched, schedIdx, sUser, sSched, sUserIdx, sCredIdx, sSchedIdx, history>>

StoreCredentialIndexes ==
    /\ At("credIdx")
    /\ \/ sCredIdx' = credIdx /\ NoFault
       \/ Fault("credIdx") /\ UNCHANGED sCredIdx
    /\ Continue
    /\ UNCHANGED <<ram, sUser, sCred, sSched, sUserIdx, sSchedIdx, history>>

-----------------------------------------------------------------------------
(* Set...Schedule. Every failure is reported and ends the command.            *)
SetSchedule(i) ==
    /\ sched' = [sched EXCEPT ![i] = TRUE]
    /\ schedIdx' = AddIndex(schedIdx, i)
    /\ \/ sSched' = [sSched EXCEPT ![i] = TRUE] /\ Call("schedIdx", [NoOp EXCEPT !.c = i]) /\ NoFault
       \/ At("idle") /\ Fault("schedule") /\ UNCHANGED <<sSched, op>>
    /\ cleared' = cleared \ {i}
    /\ UNCHANGED <<user, cred, userIdx, credIdx, sUser, sCred, sUserIdx, sCredIdx, sSchedIdx, given>>

(* Mutant: the item of a schedule that is cleared stays, and the list too.    *)
ClearScheduleInRam(i) ==
    /\ At("idle")
    /\ sched' = [sched EXCEPT ![i] = FALSE]
    /\ cleared' = cleared \cup {i}
    /\ NoFault /\ UNCHANGED <<user, cred, userIdx, credIdx, schedIdx, store, op, given>>

(* A schedule that is not there is cleared with success. Else it is gone from *)
(* RAM before its item and its index are removed.                             *)
ClearSchedule(i) ==
    /\ At("idle")
    /\ sched' = [sched EXCEPT ![i] = FALSE]
    /\ \/ /\ ~sched[i] /\ cleared' = cleared \cup {i}
          /\ NoFault /\ UNCHANGED <<schedIdx, sSched, op>>
       \/ /\ sched[i] /\ sSched' = [sSched EXCEPT ![i] = None]
          /\ schedIdx' = RemoveIndex(schedIdx, i)
          /\ Call("schedIdx", [NoOp EXCEPT !.c = i, !.clear = TRUE])
          /\ NoFault /\ UNCHANGED cleared
       \/ /\ sched[i] /\ Fault("schedule") /\ UNCHANGED <<schedIdx, sSched, op, cleared>>
    /\ UNCHANGED <<user, cred, userIdx, credIdx, sUser, sCred, sUserIdx, sCredIdx, sSchedIdx, given>>

(* The list is stored, or removed when it is empty.                           *)
StoreScheduleIndexes ==
    /\ At("schedIdx")
    /\ \/ /\ sSchedIdx' = IF schedIdx = <<>> THEN None ELSE schedIdx
          /\ cleared' = IF op.clear THEN cleared \cup {op.c} ELSE cleared
          /\ NoFault
       \/ Fault("schedule") /\ UNCHANGED <<sSchedIdx, cleared>>
    /\ Go("idle")
    /\ UNCHANGED <<ram, sUser, sCred, sSched, sUserIdx, sCredIdx, given>>

-----------------------------------------------------------------------------
(* RemoveCollection of users, credentials and schedules, by the lists in RAM. *)
(* What cannot be removed is skipped. The device restarts afterwards.         *)
Collection(what, list) ==
    LET Item(i) == <<what, i>>
    IN IF list = <<>> THEN <<>> ELSE [p \in DOMAIN list |-> Item(list[p])] \o <<Item(0)>>

FactoryReset ==
    /\ Call("remove", [NoOp EXCEPT !.todo =
           Collection("user", userIdx) \o Collection("cred", credIdx)
               \o Collection("schedule", schedIdx)])
    /\ Command /\ UNCHANGED history

Without(what, i) ==
    /\ sUser'     = IF what = "user" /\ i # 0 THEN [sUser EXCEPT ![i] = None] ELSE sUser
    /\ sUserIdx'  = IF what = "user" /\ i = 0 THEN None ELSE sUserIdx
    /\ sCred'     = IF what = "cred" /\ i # 0 THEN [sCred EXCEPT ![i] = None] ELSE sCred
    /\ sCredIdx'  = IF what = "cred" /\ i = 0 THEN None ELSE sCredIdx
    /\ sSched'    = IF what = "schedule" /\ i # 0 THEN [sSched EXCEPT ![i] = None] ELSE sSched
    /\ sSchedIdx' = IF what = "schedule" /\ i = 0 THEN None ELSE sSchedIdx

RemoveNext ==
    /\ At("remove") /\ op.todo # <<>>
    /\ op' = [op EXCEPT !.todo = Tail(@)]
    /\ \/ Without(op.todo[1][1], op.todo[1][2]) /\ NoFault
       \/ Fault("remove") /\ UNCHANGED store
    /\ UNCHANGED <<ram, history>>

(* InitializeAllCredentials; the lists and the schedules stay.                *)
InitializeAll ==
    /\ At("remove") /\ op.todo = <<>>
    /\ user' = [u \in Users |-> NoUser] /\ cred' = [c \in Creds |-> NoCred]
    /\ Go("reboot")
    /\ NoFault /\ UNCHANGED <<userIdx, credIdx, sched, schedIdx, store, history>>

-----------------------------------------------------------------------------
(* A restart; one credential may not be read.                                 *)
Restart ==
    /\ \E unread \in {{}} \cup {{c} : c \in Creds} :
          /\ cred' = LoadCredentials(unread)
          /\ unread # {} => faults < MaxFaults
          /\ faults' = IF unread = {} THEN faults ELSE faults + 1
          /\ upset' = upset \cup (IF unread = {} THEN {} ELSE {"load"})
                           \cup (IF At("idle") \/ At("reboot") THEN {} ELSE IF At("remove") THEN {"reset"} ELSE {"cut"})
    /\ user' = [u \in Users |-> LoadUser(u)]
    /\ sched' = [i \in Schedules |-> LoadSchedule(i)]
    /\ userIdx' = Listed(sUserIdx) /\ credIdx' = Listed(sCredIdx) /\ schedIdx' = Listed(sSchedIdx)
    /\ op' = NoOp
    /\ UNCHANGED <<store, history>>

Next ==
    \/ \E c \in Creds, x \in Secrets : ModifyCredential(c, x) \/ \E u \in Users : AddCredential(u, c, x)
    \/ \E c \in Creds : ClearCredential(c)
    \/ \E u \in Users, status \in {"enabled", "disabled"} : SetUserStatus(u, status)
    \/ SetUser \/ StoreUserIndexes \/ SetCredential \/ StoreCredentialIndexes
    \/ \E i \in Schedules : SetSchedule(i) \/ ClearSchedule(i)
    \/ StoreScheduleIndexes
    \/ FactoryReset \/ RemoveNext \/ InitializeAll
    \/ Restart

Spec == Init /\ [][Next]_vars

-----------------------------------------------------------------------------
Unless(causes, P) == upset \cap causes = {} => P

(* Between commands a restart would change nothing, whatever commands were    *)
(* cut before - unless the storage failed, or a factory reset was cut: a list *)
(* of credentials without its items lasts, and fills in copies.               *)
RestartChangesNothing ==
    Unless({"reset", "user", "userIdx", "cred", "credIdx", "schedule", "remove", "load"}, At("idle") =>
        /\ \A u \in Users : user[u] = LoadUser(u)
        /\ cred = LoadCredentials({})
        /\ \A i \in Schedules : sched[i] = LoadSchedule(i))

(* No restart, at any step of any command, lets a secret in that was not let  *)
(* in before: a secret that was replaced, a user who was disabled. The        *)
(* storage has not failed, and not both a command and a factory reset were    *)
(* cut: the first may leave a credential with two users.                      *)
RestartGrantsNothing ==
    [][/\ Restart /\ upset' \cap {"user", "userIdx", "cred", "credIdx", "remove", "load"} = {}
       /\ ~ {"cut", "reset"} \subseteq upset'
       => \A x \in Secrets : ValidateCredential(x)' # 0 => ValidateCredential(x) # 0]_vars

(* A secret lets in the user it was set for and nobody else. A factory reset  *)
(* that is cut leaves users with all their credentials, or none; one that     *)
(* could not remove everything lets a listed credential take the secret of    *)
(* another.                                                                   *)
OwnerIsCredited ==
    Unless({"cut", "user", "cred", "userIdx", "credIdx", "remove", "load"},
        \A x \in Secrets : ValidateCredential(x) \in {0, given[x]})

(* What was erased with success stays erased: a schedule that was cleared     *)
(* does not come back with any restart, and a factory reset leaves no user    *)
(* and no credential behind.                                                  *)
ErasedStays ==
    /\ TypeOK
    /\ Unless({"schedule"}, \A i \in cleared : ~sched[i])
    /\ Unless({"cut", "user", "userIdx", "cred", "credIdx", "remove"},
           At("reboot") => /\ \A u \in Users : sUser[u] = None
                           /\ \A c \in Creds : sCred[c] = None)

=============================================================================
