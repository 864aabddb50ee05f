---------------------------- MODULE TerminalJournal ----------------------------
(***************************************************************************)
(* The journal of one bootstrap, from both of its sides: the executor,     *)
(* whose every mutating request leaves an intent and a result, and the     *)
(* terminal policy, which must tell from these records alone that each     *)
(* write of the plan took effect once, in its order and in its bracket.    *)
(* The plan is the whole one, with one operation for each family of        *)
(* operations that are written and judged alike.                           *)
(***************************************************************************)
EXTENDS Naturals, Sequences, FiniteSets

CONSTANTS
    Contexts,     \* what the preflight may have authorized, see Context
    MaxDenials,   \* bound: denied attempts of one execution, all of one request
                  \* (code: 3 of an action of the lease, 63 of a create)
    PutWindow,    \* the 30 seconds in which the settings must be put
    MaxSlow       \* bound: how long the last read before that put may take (code: 90 s)

VARIABLES
    context,  \* the authorized context
    proj,     \* what the operations' readbacks say of the path they took
    seen,     \* observation -> when it was made
    clock,    \* steps
    journal,  \* the records
    effects,  \* what took effect in Azure, in order
    i, n,     \* the operation, and the request of its script
    pc,       \* "next", "sent", "release", "aborted", "done"
    denials,  \* denied attempts
    again,    \* the blob's DELETE was replayed
    slow,     \* that read took longer than the policy allows
    edited    \* the journal that is read is not the one that was written

vars == <<context, proj, seen, clock, journal, effects, i, n, pc, denials, again, slow, edited>>

(***************************************************************************)
(* The plan                                                                *)
(***************************************************************************)
Plan == <<"claim", "group", "roles", "bridge", "attach", "rule+", "controller+", "blob+", "lease",
          "blob-", "controller-", "package+", "upload", "package-", "key+", "key-", "fence+",
          "fence", "fence-", "rule-", "configure", "worm", "canary", "extend", "detach",
          "retire", "fic">>
Ops == {Plan[k] : k \in DOMAIN Plan}

Members  == {"role 1", "role 2"}
Renewals == 1

(* The decisions that are made before anything is written.                 *)
Context == [group : {"adopt", "apply"}, roles : SUBSET Members, upload : {"adopt", "apply"},
            fence : {"adopt", "apply"}, worm : {"put-lock", "extend"}]

(* An entry of a script is a write or an observation.                      *)
Put(x) == [see |-> FALSE, x |-> x]
See(x) == [see |-> TRUE, x |-> x]
Writes(s) == [k \in DOMAIN s |-> Put(s[k])]

(* The lock over an assignment is suspended around its deletion, and put   *)
(* back before the key's own definition is deleted.                        *)
GuardedDelete(lock, assignments) ==
    <<"DELETE " \o lock>> \o assignments \o <<"PUT " \o lock>>

RoleScript(op) ==
    CASE op = "controller+" -> <<"PUT controller">>
      [] op = "package+"    -> <<"PUT add", "PUT read">>
      [] op = "key+"        -> <<"PUT key definition", "PUT key">>
      [] op = "fence+"      -> <<"PUT fence role">>
      [] op = "controller-" -> GuardedDelete("rollback", <<"DELETE controller">>)
      [] op = "package-"    -> GuardedDelete("rollback", <<"DELETE add", "DELETE read">>)
      [] op = "key-"        -> GuardedDelete("vault", <<"DELETE key">>) \o <<"DELETE key definition">>
      [] op = "fence-"      -> GuardedDelete("rollback", <<"DELETE fence role">>)
RoleOps == {"controller+", "package+", "key+", "fence+", "controller-", "package-", "key-", "fence-"}

MemberScript ==
    CASE context.roles = Members    -> <<"PUT role 1", "PUT role 2">>
      [] context.roles = {"role 1"} -> <<"PUT role 1">>
      [] context.roles = {"role 2"} -> <<"PUT role 2">>
      [] context.roles = {}         -> <<>>

BridgeScript == <<"PUT site", "PUT ftp", "PUT scm", "POST stop">>

(* The policy is read again between its PUT and its lock.                  *)
WormScript ==
    CASE proj.worm = "extend"   -> <<"POST extend package">>
      [] proj.worm = "Unlocked" -> <<"PUT package", "POST lock package">>
      [] proj.worm = "Locked"   -> <<"PUT package">>

LeaseScript == <<"PUT lease", "PUT lease", "PUT lease", "PUT lease">>

(* Mutant: the time of the control is taken once its request is answered.  *)
ConfigureLate == <<Put("PUT settings"), See("issued")>>

(* The control's time is taken before the last read of the settings.       *)
ConfigureScript == <<See("issued"), Put("PUT settings")>>

CanaryScript ==
    <<See("netInitial"), Put("PATCH open"), Put("POST stop"), See("netEnabled"), See("scmInitial"),
      Put("PUT scm on"), See("scmEnabled"), Put("POST start"), See("running"), See("triggered"),
      Put("POST run"), See("triggerAnswered"), See("history"), Put("POST stop")>>
    \o (IF proj.scmOff THEN <<Put("PUT scm off")>> ELSE <<>>)
    \o <<See("scmRestored"), Put("PATCH close"), See("netRestored")>>
    \o (IF proj.stopAgain THEN <<Put("POST stop")>> ELSE <<>>)
    \o <<See("stopped")>>
Observations == {"issued", "netInitial", "netEnabled", "scmInitial", "scmEnabled", "running",
                 "triggered", "triggerAnswered", "history", "scmRestored", "netRestored", "stopped"}

(* One write, or none if what was there is adopted.                        *)
Single(op) ==
    CASE op = "claim"  -> <<"PUT claim">>
      [] op = "group"  -> IF context.group = "adopt" THEN <<>> ELSE <<"PUT group">>
      [] op = "attach" -> <<"PATCH site">>
      [] op = "rule+"  -> <<"PATCH storage">>
      [] op = "rule-"  -> <<"PATCH storage">>
      [] op = "blob+"  -> <<"PUT blob">>
      [] op = "blob-"  -> <<"DELETE blob">>
      [] op = "upload" -> IF proj.upload = "adopted" THEN <<>> ELSE <<"PUT zip">>
      [] op = "fence"  -> IF context.fence = "adopt" THEN <<>> ELSE <<"PUT fence">>
      [] op = "extend" -> <<"POST extend accepted">>
      [] op = "detach" -> <<"PATCH legacy">>
      [] op = "retire" -> GuardedDelete("rollback", <<"DELETE legacy">>)
      [] op = "fic"    -> <<"POST fic">>

Script(op) ==
    CASE op \in RoleOps    -> Writes(RoleScript(op))
      [] op = "roles"      -> Writes(MemberScript)
      [] op = "bridge"     -> Writes(BridgeScript)
      [] op = "worm"       -> Writes(WormScript)
      [] op = "lease"      -> Writes(LeaseScript)
      [] op = "configure"  -> ConfigureScript
      [] op = "canary"     -> CanaryScript
      [] OTHER             -> Writes(Single(op))

(***************************************************************************)
(* The executor                                                            *)
(***************************************************************************)

Conditional == {"blob+", "upload", "fence"}
Deniable    == {"blob+", "upload", "fence", "lease"}

(* The status of a success: a create must be one; a lease is acquired,     *)
(* renewed, released and acquired again.                                   *)
LeaseStatus == <<201, 200, 200, 201>>
Success(op, k) ==
    CASE op = "claim" \/ op \in Conditional -> {201}
      [] op = "lease" -> {LeaseStatus[k]}
      [] op = "blob-" -> {202, 404}
      [] OTHER        -> {200}

Record(phase, id, status) ==
    [op |-> Plan[i], phase |-> phase, id |-> id, target |-> Script(Plan[i])[n].x,
     status |-> status, at |-> clock]

Tick == clock' = clock + 1
Done == i > Len(Plan)
AtEnd == n > Len(Script(Plan[i]))

(* The operation reads what it needs and takes its path: an upload finds   *)
(* the package or not, a policy that is put may be locked already.         *)
Chosen(op) ==
    {p \in [upload : {"none", "created", "adopted"}, worm : {"none", "extend", "Locked", "Unlocked"},
            scmOff : BOOLEAN, stopAgain : BOOLEAN] :
        /\ IF op # "upload" THEN p.upload = proj.upload
           ELSE p.upload \in IF context.upload = "adopt" THEN {"adopted"} ELSE {"created", "adopted"}
        /\ IF op # "worm" THEN p.worm = proj.worm
           ELSE p.worm \in IF context.worm = "extend" THEN {"extend"} ELSE {"Locked", "Unlocked"}
        /\ op = "canary" \/ (p.scmOff = proj.scmOff /\ p.stopAgain = proj.stopAgain)}

Abort == pc' = "aborted" /\ UNCHANGED <<i, n>>

(* The next operation starts; any of its reads may find something else     *)
(* than was authorized.  A removal that was ambiguous ends the execution.  *)
Start ==
    /\ pc = "next" /\ ~Done /\ n = 0
    /\ proj' \in Chosen(Plan[i])
    /\ pc' \in {"next", "aborted"}
    /\ n' = 1
    /\ UNCHANGED <<context, seen, clock, journal, effects, i, denials, again, slow, edited>>

NextOperation ==
    /\ pc = "next" /\ ~Done /\ n > 0 /\ AtEnd
    /\ IF again THEN Abort ELSE i' = i + 1 /\ n' = 0 /\ UNCHANGED pc
    /\ UNCHANGED <<context, proj, seen, clock, journal, effects, denials, again, slow, edited>>

Finish ==
    /\ pc = "next" /\ Done
    /\ pc' = "done"
    /\ UNCHANGED <<context, proj, seen, clock, journal, effects, i, n, denials, again, slow, edited>>

(* The read of the settings after the control was issued may be slow.      *)
(* Bound: in an execution without denials.                                 *)
MaySlow == Plan[i] = "configure" /\ denials = 0
Observe ==
    /\ pc = "next" /\ ~Done /\ n > 0 /\ ~AtEnd
    /\ Script(Plan[i])[n].see
    /\ seen' = [seen EXCEPT ![Script(Plan[i])[n].x] = clock]
    /\ \E d \in IF MaySlow THEN {1, MaxSlow} ELSE {1} :
           /\ clock' = clock + d
           /\ slow' = (slow \/ d > PutWindow)
    /\ n' = n + 1
    /\ UNCHANGED <<context, proj, journal, effects, i, pc, denials, again, edited>>

Send ==
    /\ pc = "next" /\ ~Done /\ n > 0 /\ ~AtEnd
    /\ ~Script(Plan[i])[n].see
    /\ journal' = Append(journal, Record("intent", clock, 0))
    /\ Tick
    /\ pc' = "sent"
    /\ UNCHANGED <<context, proj, seen, effects, i, n, denials, again, slow, edited>>

LastId == journal[Len(journal)].id
Refused == journal[Len(journal)].status = 403
Effect == effects' = Append(effects, <<Plan[i], Script(Plan[i])[n].x>>)
Result(status) == journal' = Append(journal, Record("result", LastId, status)) /\ Tick

Answer ==
    /\ pc = "sent"
    /\ \E status \in Success(Plan[i], n) :
         /\ status = 404 => again
         /\ Result(status)
         /\ IF status = 404 THEN UNCHANGED effects ELSE Effect
    /\ pc' = "next" /\ n' = n + 1
    /\ UNCHANGED <<context, proj, seen, i, denials, again, slow, edited>>

(* All denials are of one request.                                         *)
SameRequest == denials > 0 => journal[Len(journal) - 1].status = 403

(* Mutant: one attempt more is made.                                       *)
DeniedForever ==
    /\ pc = "sent" /\ Plan[i] \in Deniable /\ SameRequest
    /\ denials <= MaxDenials /\ denials' = denials + 1
    /\ Result(403)
    /\ pc' = "next"
    /\ UNCHANGED <<context, proj, seen, effects, i, n, again, slow, edited>>

(* A denial without effect is tried again, with a request of its own.      *)
Denied ==
    /\ pc = "sent" /\ Plan[i] \in Deniable /\ SameRequest
    /\ denials < MaxDenials /\ denials' = denials + 1
    /\ Result(403)
    /\ pc' = "next"
    /\ UNCHANGED <<context, proj, seen, effects, i, n, again, slow, edited>>

(* The answer is late, is not one of those expected, is a denial when the  *)
(* time is up, or never comes; the DELETE of the blob alone is then sent   *)
(* once more, and a lease that may be held is given back.                  *)
MayHold == Plan[i] = "lease" /\ n # 3 /\ (n = 1 => ~Refused')
Trouble ==
    /\ pc = "sent"
    /\ \/ Result(500) /\ UNCHANGED effects
       \/ Plan[i] \in Deniable /\ Result(403) /\ UNCHANGED effects
       \/ \E status \in Success(Plan[i], n) : status # 404 /\ Result(status) /\ Effect
       \/ UNCHANGED <<journal, effects, clock>>
       \/ Effect /\ UNCHANGED <<journal, clock>>
    /\ IF Plan[i] = "blob-" /\ ~again
       THEN again' = TRUE /\ pc' = "next" /\ UNCHANGED <<i, n>>
       ELSE /\ pc' = IF MayHold THEN "release" ELSE "aborted"
            /\ UNCHANGED <<i, n, again>>
    /\ UNCHANGED <<context, proj, seen, denials, slow, edited>>

(* release_or_expire, after an acquisition or a renewal that failed.       *)
Release ==
    /\ pc = "release"
    /\ \E status \in {0, 200, 403, 500} :
         /\ journal' = journal \o [k \in 1 .. (IF status = 0 THEN 1 ELSE 2) |->
                [op |-> "lease", phase |-> IF k = 1 THEN "intent" ELSE "result",
                 id |-> clock, target |-> "PUT lease",
                 status |-> IF k = 1 THEN 0 ELSE status, at |-> clock + k - 1]]
         /\ \/ status \in {0, 200} /\ effects' = Append(effects, <<"lease", "PUT lease">>)
            \/ status # 200 /\ UNCHANGED effects
    /\ clock' = clock + 2
    /\ pc' = "aborted"
    /\ UNCHANGED <<context, proj, seen, i, n, denials, again, slow, edited>>

(* What an aborted execution still owns is removed under the removals' own *)
(* names; the settings are put back under the name of their operation.     *)
Removal(op) == CASE op = "rule+"       -> "rule-"
                 [] op = "controller+" -> "controller-"
                 [] op = "blob+"       -> "blob-"
                 [] op = "package+"    -> "package-"
                 [] op = "key+"        -> "key-"
                 [] op = "fence+"      -> "fence-"
Written(op) == Cardinality({k \in DOMAIN journal : journal[k].op = op /\ journal[k].phase = "intent"})
Owned == {op \in {"rule+", "controller+", "blob+", "package+", "key+", "fence+"} :
            Written(op) > 0 /\ Written(Removal(op)) = 0}
Compensations == {<<Removal(op), Script(Removal(op))>> : op \in Owned}
                 \union (IF Written("configure") = 1 THEN {<<"configure", Writes(<<"PUT settings">>)>>} ELSE {})
Compensate ==
    /\ pc = "aborted"
    /\ \E c \in Compensations :
         LET s == c[2] IN
         /\ journal' = journal \o [k \in 1 .. 2 * Len(s) |->
                [op |-> c[1], phase |-> IF k % 2 = 1 THEN "intent" ELSE "result",
                 id |-> clock + k - ((k + 1) % 2), target |-> s[(k + 1) \div 2].x,
                 status |-> IF k % 2 = 1 THEN 0 ELSE IF c[1] = "blob-" THEN 202 ELSE 200,
                 at |-> clock + k]]
         /\ clock' = clock + 2 * Len(s) + 1
         /\ effects' = effects \o [k \in DOMAIN s |-> <<c[1], s[k].x>>]
    /\ UNCHANGED <<context, proj, seen, i, n, pc, denials, again, slow, edited>>

(***************************************************************************)
(* The terminal policy: what each operation must have written.             *)
(***************************************************************************)
Lock(op) == CASE op \in {"controller-", "package-", "fence-", "retire"} -> "rollback"
              [] op = "key-" -> "vault"
              [] OTHER       -> "none"
Assignments(op) == CASE op = "controller-" -> <<"DELETE controller">>
                     [] op = "package-"    -> <<"DELETE add", "DELETE read">>
                     [] op = "key-"        -> <<"DELETE key">>
                     [] op = "fence-"      -> <<"DELETE fence role">>
                     [] op = "retire"      -> <<"DELETE legacy">>

(* _expected_terminal_mutation_targets: operation -> a bag of targets.     *)
Once(S) == [t \in S |-> 1]
Bracketed(op, more) ==
    Once({"DELETE " \o Lock(op), "PUT " \o Lock(op)} \union more
         \union {Assignments(op)[k] : k \in DOMAIN Assignments(op)})
RequiredWorm ==
    CASE proj.worm = "extend"   -> Once({"POST extend package"})
      [] proj.worm = "Unlocked" -> Once({"PUT package", "POST lock package"})
      [] proj.worm = "Locked"   -> Once({"PUT package"})
RequiredCanary ==
    [t \in {"PATCH open", "PUT scm on", "POST start", "POST run", "POST stop", "PATCH close"}
           \union (IF proj.scmOff THEN {"PUT scm off"} ELSE {}) |->
        IF t = "POST stop" THEN (IF proj.stopAgain THEN 3 ELSE 2) ELSE 1]

Required(op) ==
    CASE op = "claim"       -> Once({"PUT claim"})
      [] op = "group"       -> Once(IF context.group = "adopt" THEN {} ELSE {"PUT group"})
      [] op = "roles"       -> Once({"PUT " \o r : r \in context.roles})
      [] op = "bridge"      -> Once({"PUT site", "PUT ftp", "PUT scm", "POST stop"})
      [] op = "attach"      -> Once({"PATCH site"})
      [] op \in {"rule+", "rule-"} -> Once({"PATCH storage"})
      [] op = "controller+" -> Once({"PUT controller"})
      [] op = "package+"    -> Once({"PUT add", "PUT read"})
      [] op = "key+"        -> Once({"PUT key definition", "PUT key"})
      [] op = "fence+"      -> Once({"PUT fence role"})
      [] op \in {"controller-", "package-", "fence-", "retire"} -> Bracketed(op, {})
      [] op = "key-"        -> Bracketed(op, {"DELETE key definition"})
      [] op = "blob+"       -> Once({"PUT blob"})
      [] op = "lease"       -> [t \in {"PUT lease"} |-> 3 + Renewals]
      [] op = "blob-"       -> Once({"DELETE blob"})
      [] op = "upload"      -> Once(IF proj.upload = "adopted" THEN {} ELSE {"PUT zip"})
      [] op = "fence"       -> Once(IF context.fence = "adopt" THEN {} ELSE {"PUT fence"})
      [] op = "configure"   -> Once({"PUT settings"})
      [] op = "worm"        -> RequiredWorm
      [] op = "canary"      -> RequiredCanary
      [] op = "extend"      -> Once({"POST extend accepted"})
      [] op = "detach"      -> Once({"PATCH legacy"})
      [] op = "fic"         -> Once({"POST fic"})

(* Every path that was taken is known.                                     *)
PathsKnown == proj.upload # "none" /\ proj.worm # "none"

(* _mutation_target_allowed: the requests that an operation may ever make. *)
Allowed(op, t) ==
    CASE op = "worm"   -> t \in IF context.worm = "extend" THEN {"POST extend package"}
                                ELSE {"PUT package", "POST lock package"}
      [] op = "roles"  -> t \in {"PUT " \o r : r \in Members}
      [] op = "group"  -> t = "PUT group"
      [] op = "upload" -> t = "PUT zip"
      [] op = "fence"  -> t = "PUT fence"
      [] op = "canary" -> t \in DOMAIN RequiredCanary \union {"PUT scm off"}
      [] OTHER         -> t \in DOMAIN Required(op)

(***************************************************************************)
(* The terminal policy: the records.                                       *)
(***************************************************************************)
Of(j, op)      == SelectSeq(j, LAMBDA r : r.op = op)
Results(j)     == SelectSeq(j, LAMBDA r : r.phase = "result")
Places(j, op)  == {k \in DOMAIN j : j[k].op = op}
Serial(s) ==
    /\ Len(s) % 2 = 0
    /\ \A k \in 1 .. Len(s) \div 2 :
         s[2 * k - 1].phase = "intent" /\ s[2 * k].phase = "result" /\ s[2 * k].id = s[2 * k - 1].id
OneSection(j, op) ==
    LET here == Places(j, op) IN
    /\ \A k \in here : k + 1 \in here \/ \A m \in here : m <= k
    /\ Serial(Of(j, op))

(* Each result belongs to one earlier intent, and no intent is left.       *)
WellFormed(j) ==
    LET at(phase) == {k \in DOMAIN j : j[k].phase = phase}
        ids(S)    == {j[k].id : k \in S}
        intents   == at("intent")
        results   == at("result") IN
    /\ Cardinality(ids(intents)) = Cardinality(intents)
    /\ Cardinality(ids(results)) = Cardinality(results)
    /\ ids(intents) = ids(results)
    /\ \A k \in results : \E m \in 1 .. k - 1 :
         /\ j[m].id = j[k].id /\ j[m].phase = "intent"
         /\ j[m].op = j[k].op /\ j[m].target = j[k].target /\ j[m].at <= j[k].at
    /\ \A k \in DOMAIN j : Allowed(j[k].op, j[k].target)

ClaimFirst(j) ==
    /\ Len(j) >= 2 /\ j[1].op = "claim" /\ j[1].phase = "intent"
    /\ j[2].phase = "result" /\ j[2].id = j[1].id /\ j[2].status = 201

(* Denials come before the one success of a conditional create.            *)
DenialsArePrefix(j) ==
    \A op \in Conditional : Of(j, op) # <<>> =>
        LET r == Results(Of(j, op)) IN
        /\ OneSection(j, op)
        /\ \A k \in DOMAIN r : r[k].status = IF k = Len(r) THEN 201 ELSE 403

(* Before each of the lease's actions there are at most three.             *)
Before(r, k) == Cardinality({m \in 1 .. k - 1 : r[m].status # 403})
LeaseSequence(j) ==
    LET r == Results(Of(j, "lease"))
        done == SelectSeq(r, LAMBDA x : x.status # 403) IN
    Of(j, "lease") # <<>> =>
        /\ OneSection(j, "lease")
        /\ [k \in DOMAIN done |-> done[k].status] = LeaseStatus
        /\ r[Len(r)].status # 403
        /\ \A s \in 0 .. 3 : Cardinality({k \in DOMAIN r : r[k].status = 403 /\ Before(r, k) = s}) <= 3

(* The results that count: the admitted denials do not.                    *)
Counts(r) == r.phase = "result" /\ ~(r.status = 403 /\ r.op \in Deniable)
(* Mutant: an answer is a success.                                         *)
Answered(r) == r.status # 0

GoodStatus(r) == r.status \in 200 .. 299 \/ (r.status = 404 /\ r.op = "blob-")

Covered(j) ==
    LET counted == {k \in DOMAIN j : Counts(j[k])} IN
    /\ \A k \in counted : GoodStatus(j[k])
    /\ \A op \in Ops :
         LET mine == {k \in counted : j[k].op = op} IN
         /\ {j[k].target : k \in mine} = DOMAIN Required(op)
         /\ \A t \in DOMAIN Required(op) :
              Cardinality({k \in mine : j[k].target = t}) = Required(op)[t]

(* Mutant: the lock is removed and put back, whenever.                     *)
LocksCounted(j) ==
    \A op \in Ops : Lock(op) # "none" =>
        \A k \in DOMAIN Of(j, op) : Of(j, op)[k].op = op

(* The lock's removal and its restoration bracket the assignments.         *)
LocksBracket(j) ==
    \A op \in Ops : Lock(op) # "none" =>
        LET r == Results(Of(j, op))
            bracket == GuardedDelete(Lock(op), Assignments(op)) IN
        /\ Len(r) >= Len(bracket)
        /\ \A k \in DOMAIN bracket : r[k].target = bracket[k]
        /\ Serial(Of(j, op))

(* The canary is one block; each write falls between two observations.     *)
CanaryPairs ==
    <<<<"PATCH open", "netInitial", "netEnabled">>, <<"POST stop", "netInitial", "netEnabled">>,
      <<"PUT scm on", "scmInitial", "scmEnabled">>, <<"POST start", "scmEnabled", "running">>,
      <<"POST run", "triggered", "triggerAnswered">>, <<"POST stop", "history", "scmRestored">>>>
    \o (IF proj.scmOff THEN <<<<"PUT scm off", "history", "scmRestored">>>> ELSE <<>>)
    \o <<<<"PATCH close", "scmRestored", "netRestored">>>>
    \o (IF proj.stopAgain THEN <<<<"POST stop", "netRestored", "stopped">>>> ELSE <<>>)

CanaryExact(j) ==
    LET c == Of(j, "canary")
        pairs == CanaryPairs IN
    /\ Len(c) = 2 * Len(pairs)
    /\ OneSection(j, "canary")
    /\ \A k \in DOMAIN pairs :
         /\ c[2 * k - 1].target = pairs[k][1]
         /\ seen[pairs[k][2]] <= c[2 * k - 1].at
         /\ c[2 * k - 1].at <= c[2 * k].at
         /\ c[2 * k].at <= seen[pairs[k][3]]

(* One protected role after the other.                                     *)
RolesSerial(j) ==
    LET r == Results(j) IN
    \A p \in {<<"rule+", "controller+">>, <<"controller-", "package+">>, <<"package-", "key+">>,
              <<"key-", "fence+">>, <<"fence-", "rule-">>} :
        /\ Places(r, p[1]) # {} /\ Places(r, p[2]) # {}
        /\ \A a \in Places(r, p[1]), b \in Places(r, p[2]) : a < b

SettingsInTime(j) ==
    LET c == Of(j, "configure") IN
    /\ Len(c) = 2 /\ c[1].phase = "intent" /\ c[2].phase = "result"
    /\ seen["issued"] <= c[1].at /\ c[1].at <= seen["issued"] + PutWindow

Accepts(j) ==
    /\ PathsKnown /\ ClaimFirst(j) /\ CanaryExact(j) /\ SettingsInTime(j)
    /\ LocksBracket(j) /\ RolesSerial(j) /\ DenialsArePrefix(j) /\ LeaseSequence(j)
    /\ Covered(j) /\ WellFormed(j)

(***************************************************************************)
(* What else may be read: one record or one pair of records lost, doubled, *)
(* exchanged with its neighbour, or given another status or the operation  *)
(* of the next one.                                                        *)
(***************************************************************************)
Without(j, S) == SelectSeq([k \in DOMAIN j |-> IF k \in S THEN <<>> ELSE <<j[k]>>],
                           LAMBDA x : x # <<>>)
Flat(s) == [k \in DOMAIN s |-> s[k][1]]
SwapAt(j, k, w) == [m \in DOMAIN j |-> IF m \in k .. k + w - 1 THEN j[m + w]
                                       ELSE IF m \in k + w .. k + 2 * w - 1 THEN j[m - w]
                                       ELSE j[m]]
Doubled(j, k) == SubSeq(j, 1, k + 1) \o [m \in 1 .. 2 |-> [j[k + m - 1] EXCEPT !.id = 0]]
                 \o SubSeq(j, k + 2, Len(j))
Pairs(j) == {k \in 1 .. Len(j) - 1 : k % 2 = 1}
Edits(j) ==
    {Flat(Without(j, {k})) : k \in DOMAIN j}
    \union {Flat(Without(j, {k, k + 1})) : k \in Pairs(j)}
    \union {Doubled(j, k) : k \in Pairs(j)}
    \union {SwapAt(j, k, 1) : k \in 1 .. Len(j) - 1}
    \union {SwapAt(j, k, 2) : k \in {m \in Pairs(j) : m + 3 <= Len(j)}}
    \union {[j EXCEPT ![k + 1].status = s] : k \in Pairs(j), s \in {403, 500}}
    \union {[j EXCEPT ![k].op = j[k + 2].op, ![k + 1].op = j[k + 2].op] :
                k \in {m \in Pairs(j) : m + 3 <= Len(j)}}

Edit ==
    /\ pc = "done" /\ ~edited /\ ~slow
    /\ edited' = TRUE
    /\ journal' \in Edits(journal) \ {journal}
    /\ UNCHANGED <<context, proj, seen, clock, effects, i, n, pc, denials, again, slow>>

Init ==
    /\ context \in Contexts
    /\ proj = [upload |-> "none", worm |-> "none", scmOff |-> FALSE, stopAgain |-> FALSE]
    /\ seen = [o \in Observations |-> 0]
    /\ clock = 1 /\ journal = <<>> /\ effects = <<>>
    /\ i = 1 /\ n = 0 /\ pc = "next" /\ denials = 0 /\ again = FALSE /\ slow = FALSE
    /\ edited = FALSE

Next == \/ Start \/ NextOperation \/ Finish \/ Observe \/ Send \/ Answer \/ Denied \/ Trouble \/ Release
        \/ Compensate \/ Edit

Spec == Init /\ [][Next]_vars

(***************************************************************************)
(* Properties                                                              *)
(***************************************************************************)

TypeOK ==
    /\ context \in Contexts /\ i \in 1 .. Len(Plan) + 1 /\ n \in 0 .. 25
    /\ seen \in [Observations -> 0 .. clock] /\ clock \in Nat
    /\ {journal[k].op : k \in DOMAIN journal} \union {effects[k][1] : k \in DOMAIN effects} \subseteq Ops
    /\ \A k \in DOMAIN journal : journal[k].id \in 0 .. clock
    /\ pc \in {"next", "sent", "release", "aborted", "done"} /\ denials \in Nat
    /\ slow \in BOOLEAN /\ again \in BOOLEAN /\ edited \in BOOLEAN

(* No execution that reached its end is without evidence: the policy takes *)
(* every journal that the executor writes, whatever was adopted, denied    *)
(* and tried again, unless the read between the time of the control and    *)
(* the PUT of the settings was slow.                                       *)
NominalAccepted == pc = "done" /\ ~edited /\ ~slow => Accepts(journal)

(* Every write that the plan requires took effect once, and no other did.  *)
Times(op, t) == Cardinality({k \in DOMAIN effects : effects[k] = <<op, t>>})
Complete ==
    /\ \A op \in Ops : \A t \in DOMAIN Required(op) : Times(op, t) = Required(op)[t]
    /\ \A k \in DOMAIN effects : effects[k][2] \in DOMAIN Required(effects[k][1])

(* What is told of Azure: the successes of one operation, in order.        *)
Told(j, op) == LET s == SelectSeq(Of(j, op), Counts) IN [k \in DOMAIN s |-> s[k].target]
Truth(op) == LET s == SelectSeq(effects, LAMBDA e : e[1] = op) IN [k \in DOMAIN s |-> s[k][2]]

(* A journal that is accepted, of an execution at any point, failed and    *)
(* compensated or not, and with a record lost, gained, exchanged or        *)
(* relabelled or not, is of one whose every write took effect once, and    *)
(* tells them as they were where the policy fixes their order within the   *)
(* operation.                                                              *)
AcceptedIsTrue ==
    Accepts(journal) =>
        /\ Complete
        /\ \A op \in Ops \ {"bridge", "roles", "package+", "key+", "worm"} :
               Told(journal, op) = Truth(op)
===============================================================================
