---------------------------- MODULE Registry_proofs ----------------------------
(***************************************************************************)
(* For any number of executions, of requests with the one prefix and of    *)
(* payload files: a completion manifest stands for the complete payloads   *)
(* of its request, and the payloads of two acceptances are never mixed.    *)
(* Nothing that is stored changes any more, and a file is written only     *)
(* when all files before it were found to be of the same request, which is *)
(* true of a late write as well.                                           *)
(***************************************************************************)
EXTENDS Registry, TLAPS

Labels == {"idle", "preflight", "get", "put", "negative", "probe", "putManifest", "readManifest",
           "return", "attest", "probeResult", "rejected"}

Shapes ==
    /\ blobs \in [Files -> Contents \union {None}]
    /\ request \in [Runs -> Artifacts \union {None}]
    /\ pc \in [Runs -> Labels] /\ at \in [Runs -> Files]

(* The payloads before n are those of r.                                   *)
Held(r, n) == \A f \in Files : f < n => blobs[f] = Content(r, f)
Whole(r) == Held(r, NFiles + 1)

Mine(p) ==
    /\ pc[p] \in {"preflight", "get", "put", "negative", "probe", "putManifest", "readManifest"}
           => request[p] \in Requests
    /\ pc[p] \in {"get", "put", "negative"} => Held(request[p], at[p])
    /\ pc[p] \in {"probe", "putManifest", "readManifest"} => Whole(request[p])

Allowed(n, v) ==
    \/ n \in Files /\ \E r \in Requests : v = Content(r, n) /\ Held(r, n)
    \/ n = Completion /\ v \in Manifests /\ Whole(v.request)

Chain    == \A n \in Files : blobs[n] # None => \E r \in Requests : Held(r, n + 1)
Complete == manifest # None => manifest \in Manifests /\ Whole(manifest.request)
LateOK   == \A m \in late : Allowed(m[1], m[2])
AllMine  == \A p \in Runs : Mine(p)

Inv == Shapes /\ AllMine /\ Chain /\ Complete /\ LateOK

LEMMA InitInv == ASSUME WellChosen PROVE Init => Inv
<1> SUFFICES ASSUME Init PROVE Inv
  OBVIOUS
<1>1. Shapes
  BY DEF WellChosen, Init, Shapes, Labels, Files
<1>2. AllMine
  BY DEF Init, AllMine, Mine
<1>3. Chain /\ Complete /\ LateOK
  BY DEF Init, Chain, Complete, LateOK
<1> QED
  BY <1>1, <1>2, <1>3 DEF Inv

-----------------------------------------------------------------------------
(* What is stored stays as it is.                                          *)
Grows == \A f \in Files : blobs[f] # None => blobs'[f] = blobs[f]

LEMMA HeldKeeps ==
    ASSUME WellChosen, Grows, NEW r \in Requests, NEW n, Held(r, n)
    PROVE  Held(r, n)'
<1>1. \A f \in Files : Content(r, f) # None
  BY DEF WellChosen, Contents
<1> QED
  BY <1>1 DEF Grows, Held

LEMMA WholeKeeps ==
    ASSUME WellChosen, Grows, NEW r \in Requests, Whole(r)
    PROVE  Whole(r)'
BY HeldKeeps DEF Whole

LEMMA AllowedKeeps ==
    ASSUME WellChosen, Grows, NEW n, NEW v, Allowed(n, v)
    PROVE  Allowed(n, v)'
<1>1. CASE n \in Files /\ \E r \in Requests : v = Content(r, n) /\ Held(r, n)
  BY <1>1, HeldKeeps DEF Allowed
<1>2. CASE n = Completion /\ v \in Manifests /\ Whole(v.request)
  <2>1. v.request \in Requests
    BY <1>2 DEF Manifests
  <2> QED
    BY <1>2, <2>1, WholeKeeps DEF Allowed
<1> QED
  BY <1>1, <1>2 DEF Allowed

(* A run that takes no step keeps what it knows.                           *)
LEMMA OtherKeeps ==
    ASSUME WellChosen, Grows, NEW p \in Runs, Mine(p),
           pc'[p] = pc[p], at'[p] = at[p], request'[p] = request[p]
    PROVE  Mine(p)'
<1>1. CASE pc[p] \in {"get", "put", "negative"}
  BY <1>1, HeldKeeps DEF Mine
<1>2. CASE pc[p] \in {"probe", "putManifest", "readManifest"}
  BY <1>2, WholeKeeps DEF Mine
<1>3. CASE pc[p] \notin {"get", "put", "negative", "probe", "putManifest", "readManifest"}
  BY <1>3 DEF Mine
<1> QED
  BY <1>1, <1>2, <1>3

(* What a write that is allowed does to the store.                         *)
LEMMA CreateKeeps ==
    ASSUME WellChosen, Inv, NEW n, NEW v, Create(n, v), Allowed(n, v)
    PROVE  /\ blobs' \in [Files -> Contents \union {None}]
           /\ Grows /\ Chain' /\ Complete'
<1>1. CASE n = Completion
  <2>1. n \notin Files
    BY <1>1 DEF Completion, Files
  <2>2. blobs' = blobs /\ manifest' = v /\ v \in Manifests /\ Whole(v.request)
    BY <1>1, <2>1 DEF Create, Allowed
  <2>3. Whole(v.request)'
    BY <2>2 DEF Whole, Held
  <2> QED
    BY <2>2, <2>3 DEF Grows, Inv, Shapes, Chain, Held, Complete
<1>2. CASE n # Completion
  <2>1. PICK r \in Requests : v = Content(r, n) /\ Held(r, n)
    BY <1>2 DEF Allowed
  <2>2. n \in Files /\ blobs[n] = None /\ manifest' = manifest /\ blobs' = [blobs EXCEPT ![n] = v]
    BY <1>2 DEF Allowed, Create, Stored
  <2>3. blobs' \in [Files -> Contents \union {None}] /\ Grows
    BY <2>1, <2>2 DEF Inv, Shapes, Contents, Grows
  <2>4. Chain'
    <3>1. Held(r, n + 1)'
      <4>1. \A f \in Files : f < n + 1 => f = n \/ f < n
        BY <2>2 DEF Files, WellChosen
      <4>2. Held(r, n)'
        BY <2>1, <2>3, HeldKeeps
      <4> QED
        BY <2>1, <2>2, <4>1, <4>2 DEF Held, Inv, Shapes
    <3>2. ASSUME NEW f \in Files, f # n, blobs'[f] # None
          PROVE  \E s \in Requests : Held(s, f + 1)'
      <4>1. blobs[f] # None
        BY <2>2, <3>2 DEF Inv, Shapes
      <4>2. PICK s \in Requests : Held(s, f + 1)
        BY <4>1 DEF Inv, Chain
      <4> QED
        BY <2>3, <4>2, HeldKeeps
    <3> QED
      BY <3>1, <3>2 DEF Chain
  <2>5. Complete'
    BY <2>2, <2>3, WholeKeeps DEF Inv, Complete, Manifests
  <2> QED
    BY <2>3, <2>4, <2>5
<1> QED
  BY <1>1, <1>2

(* A request that is allowed takes effect, now or not at all.              *)
LEMMA StoreKeeps ==
    ASSUME WellChosen, Inv, NEW n, NEW v, Allowed(n, v),
           Create(n, v) \/ UNCHANGED <<blobs, manifest>>
    PROVE  /\ blobs' \in [Files -> Contents \union {None}]
           /\ Grows /\ Chain' /\ Complete'
<1>1. CASE Create(n, v)
  BY <1>1, CreateKeeps
<1>2. CASE UNCHANGED <<blobs, manifest>>
  BY <1>2 DEF Inv, Shapes, Grows, Chain, Complete, Whole, Held
<1> QED
  BY <1>1, <1>2

LEMMA PutKeeps ==
    ASSUME WellChosen, Inv, NEW p \in Runs, NEW n, NEW v, Allowed(n, v), NEW label,
           Put(p, n, v, label), UNCHANGED <<at, request>>,
           \/ label = "negative" /\ pc[p] = "put"
           \/ label = "readManifest" /\ pc[p] = "putManifest"
    PROVE  Inv'
<1>1. /\ Create(n, v) \/ UNCHANGED <<blobs, manifest>>
      /\ late' = late \/ late' = late \union {<<n, v>>}
      /\ pc' = [pc EXCEPT ![p] = label] \/ pc' = [pc EXCEPT ![p] = "idle"]
  BY DEF Put, Fail, Go, store
<1>2. /\ blobs' \in [Files -> Contents \union {None}]
      /\ Grows /\ Chain' /\ Complete'
  BY <1>1, StoreKeeps
<1>3. Shapes'
  BY <1>1, <1>2 DEF Inv, Shapes, Labels
<1>4. LateOK'
  <2>1. \A m \in late' : Allowed(m[1], m[2])
    BY <1>1 DEF Inv, LateOK
  <2> QED
    BY <1>2, <2>1, AllowedKeeps DEF LateOK
<1>5. \A q \in Runs : q # p => Mine(q)'
  BY <1>1, <1>2, OtherKeeps DEF Inv, Shapes, AllMine
<1>6. Mine(p)'
  <2>1. CASE pc' = [pc EXCEPT ![p] = "idle"]
    BY <2>1 DEF Mine, Inv, Shapes
  <2>2. CASE pc' = [pc EXCEPT ![p] = label] /\ label = "negative" /\ pc[p] = "put"
    <3>1. request[p] \in Requests /\ Held(request[p], at[p])
      BY <2>2 DEF Inv, AllMine, Mine
    <3>2. Held(request[p], at[p])'
      BY <1>2, <3>1, HeldKeeps
    <3> QED
      BY <2>2, <3>1, <3>2 DEF Mine, Inv, Shapes
  <2>3. CASE pc' = [pc EXCEPT ![p] = label] /\ label = "readManifest" /\ pc[p] = "putManifest"
    <3>1. request[p] \in Requests /\ Whole(request[p])
      BY <2>3 DEF Inv, AllMine, Mine
    <3>2. Whole(request[p])'
      BY <1>2, <3>1, WholeKeeps
    <3> QED
      BY <2>3, <3>1, <3>2 DEF Mine, Inv, Shapes
  <2> QED
    BY <1>1, <2>1, <2>2, <2>3
<1> QED
  BY <1>2, <1>3, <1>4, <1>5, <1>6 DEF Inv, AllMine

LEMMA LandKeeps ==
    ASSUME WellChosen, Inv, Land
    PROVE  Inv'
<1>1. PICK m \in late : /\ late' = late \ {m}
                        /\ Create(m[1], m[2]) \/ UNCHANGED <<blobs, manifest>>
                        /\ UNCHANGED <<pc, at, request>>
  BY DEF Land, inputs, local
<1>2. Allowed(m[1], m[2])
  BY DEF Inv, LateOK
<1>3. /\ blobs' \in [Files -> Contents \union {None}]
      /\ Grows /\ Chain' /\ Complete'
  BY <1>1, <1>2, StoreKeeps
<1>4. Shapes'
  BY <1>1, <1>3 DEF Inv, Shapes
<1>5. LateOK'
  <2>1. \A k \in late' : Allowed(k[1], k[2])
    BY <1>1 DEF Inv, LateOK
  <2> QED
    BY <1>3, <2>1, AllowedKeeps DEF LateOK
<1>6. AllMine'
  BY <1>1, <1>3, OtherKeeps DEF Inv, AllMine
<1> QED
  BY <1>3, <1>4, <1>5, <1>6 DEF Inv

-----------------------------------------------------------------------------
(* A step that writes nothing.                                             *)
LEMMA QuietKeeps ==
    ASSUME WellChosen, Inv, NEW p \in Runs, UNCHANGED store,
           Shapes', Mine(p)',
           \A q \in Runs : q # p => pc'[q] = pc[q] /\ at'[q] = at[q] /\ request'[q] = request[q]
    PROVE  Inv'
<1>1. Grows
  BY DEF Grows, store
<1>2. \A q \in Runs : q # p => Mine(q)'
  BY <1>1, OtherKeeps DEF Inv, AllMine
<1>3. Chain' /\ Complete'
  BY DEF Inv, Chain, Complete, Whole, Held, store
<1>4. LateOK'
  BY <1>1, AllowedKeeps DEF Inv, LateOK, store
<1> QED
  BY <1>2, <1>3, <1>4 DEF Inv, AllMine

(* A step that only moves to a label at which nothing is known.            *)
LEMMA MoveKeeps ==
    ASSUME WellChosen, Inv, NEW p \in Runs, UNCHANGED <<store, at, request>>,
           NEW label \in {"idle", "return", "attest", "probeResult", "rejected"},
           pc' = [pc EXCEPT ![p] = label]
    PROVE  Inv'
<1>1. Shapes'
  BY DEF Inv, Shapes, Labels, store
<1>2. Mine(p)'
  BY DEF Inv, Shapes, Mine
<1> QED
  BY <1>1, <1>2, QuietKeeps DEF Inv, Shapes

(* The payload at hand is the request's own; the run goes on.              *)
LEMMA AfterPayloadKeeps ==
    ASSUME WellChosen, Inv, NEW p \in Runs, UNCHANGED <<store, request>>,
           pc[p] \in {"get", "negative"}, Verified(p), AfterPayload(p)
    PROVE  Inv'
<1>0. /\ request[p] \in Requests /\ Held(request[p], at[p]) /\ at[p] \in Files
      /\ pc \in [Runs -> Labels] /\ at \in [Runs -> Files]
  BY DEF Inv, Shapes, AllMine, Mine
<1>1. Held(request[p], at[p] + 1)
  <2>1. \A f \in Files : f < at[p] + 1 => f = at[p] \/ f < at[p]
    BY <1>0 DEF Files, WellChosen
  <2> QED
    BY <1>0, <2>1 DEF Held, Verified
<1>2. CASE at[p] < NFiles
  <2>1. at' = [at EXCEPT ![p] = @ + 1] /\ pc' = [pc EXCEPT ![p] = "get"]
    BY <1>2 DEF AfterPayload, Go
  <2>2. at[p] + 1 \in Files
    BY <1>0, <1>2 DEF Files, WellChosen
  <2>3. Shapes'
    BY <1>0, <2>1, <2>2 DEF Inv, Shapes, Labels, store
  <2>4. Mine(p)'
    <3>1. pc'[p] = "get" /\ at'[p] = at[p] + 1 /\ request'[p] = request[p]
      BY <1>0, <2>1
    <3>2. Held(request[p], at[p])'
      BY <1>1, <3>1 DEF Held, store
    <3> QED
      BY <1>0, <3>1, <3>2 DEF Mine
  <2> QED
    BY <1>0, <2>1, <2>3, <2>4, QuietKeeps
<1>3. CASE ~ (at[p] < NFiles)
  <2>1. at' = at /\ pc' = [pc EXCEPT ![p] = "probe"]
    BY <1>3 DEF AfterPayload, Go
  <2>2. at[p] = NFiles
    BY <1>0, <1>3 DEF Files, WellChosen
  <2>3. Shapes'
    BY <1>0, <2>1 DEF Inv, Shapes, Labels, store
  <2>4. Mine(p)'
    <3>1. pc'[p] = "probe" /\ request'[p] = request[p]
      BY <1>0, <2>1
    <3>2. Whole(request[p])'
      BY <1>1, <2>2 DEF Whole, Held, store
    <3> QED
      BY <1>0, <3>1, <3>2 DEF Mine
  <2> QED
    BY <1>0, <2>1, <2>3, <2>4, QuietKeeps
<1> QED
  BY <1>2, <1>3

-----------------------------------------------------------------------------
LEMMA StepKeeps ==
    ASSUME WellChosen, Inv, NEW p \in Runs, Step(p)
    PROVE  Inv'
<1>0. /\ pc \in [Runs -> Labels] /\ at \in [Runs -> Files] /\ Mine(p)
      /\ request \in [Runs -> Artifacts \union {None}]
      /\ 1 \in Files
  BY DEF Inv, Shapes, AllMine, Files, WellChosen
<1>1. CASE Download(p)
  <2>1. PICK a \in Requests : /\ request' = [request EXCEPT ![p] = a]
                              /\ pc' = [pc EXCEPT ![p] = "preflight"]
                              /\ UNCHANGED <<store, at>>
    BY <1>1 DEF Download, Valid, Go, local
  <2>2. Shapes'
    BY <1>0, <2>1 DEF Inv, Shapes, Labels, Artifacts, store
  <2>3. Mine(p)'
    BY <1>0, <2>1 DEF Mine
  <2> QED
    BY <1>0, <2>1, <2>2, <2>3, QuietKeeps
<1>2. CASE Preflight(p)
  <2>1. UNCHANGED <<store, request>>
    BY <1>2 DEF Preflight, inputs
  <2>2. CASE pc' = [pc EXCEPT ![p] = "idle"] /\ UNCHANGED local
    BY <2>1, <2>2, MoveKeeps DEF local
  <2>3. CASE pc' = [pc EXCEPT ![p] = "get"] /\ at' = [at EXCEPT ![p] = 1]
    <3>1. Shapes'
      BY <1>0, <2>1, <2>3 DEF Inv, Shapes, Labels, store
    <3>2. request[p] \in Requests
      BY <1>0, <1>2 DEF Preflight, Mine
    <3>3. \A f \in Files : ~ (f < 1)
      BY DEF Files, WellChosen
    <3>4. Mine(p)'
      BY <1>0, <2>1, <2>3, <3>2, <3>3 DEF Mine, Held
    <3> QED
      BY <1>0, <2>1, <2>3, <3>1, <3>4, QuietKeeps
  <2> QED
    BY <1>2, <2>2, <2>3 DEF Preflight, Fail, Go
<1>3. CASE Get(p)
  <2>1. UNCHANGED <<store, request>> /\ pc[p] = "get"
    BY <1>3 DEF Get, inputs
  <2>2. CASE Verified(p) /\ AfterPayload(p)
    BY <2>1, <2>2, AfterPayloadKeeps
  <2>3. CASE pc' = [pc EXCEPT ![p] = "idle"] /\ UNCHANGED at
    BY <2>1, <2>3, MoveKeeps
  <2>4. CASE pc' = [pc EXCEPT ![p] = "put"] /\ UNCHANGED at
    <3>1. Shapes'
      BY <1>0, <2>1, <2>4 DEF Inv, Shapes, Labels, store
    <3>2. Mine(p)'
      BY <1>0, <2>1, <2>4 DEF Mine, Held, store
    <3> QED
      BY <1>0, <2>1, <2>4, <3>1, <3>2, QuietKeeps
  <2> QED
    BY <1>3, <2>2, <2>3, <2>4 DEF Get, Fail, Go
<1>4. CASE Upload(p)
  <2>1. Allowed(at[p], Content(request[p], at[p]))
    BY <1>0, <1>4 DEF Upload, Mine, Allowed
  <2> QED
    BY <1>4, <2>1, PutKeeps DEF Upload, local, inputs
<1>5. CASE Negative(p)
  <2>1. UNCHANGED <<store, request>> /\ pc[p] = "negative"
    BY <1>5 DEF Negative, inputs
  <2>2. CASE Verified(p) /\ AfterPayload(p)
    BY <2>1, <2>2, AfterPayloadKeeps
  <2>3. CASE pc' = [pc EXCEPT ![p] = "idle"] /\ UNCHANGED at
    BY <2>1, <2>3, MoveKeeps
  <2> QED
    BY <1>5, <2>2, <2>3 DEF Negative, Fail, Go
<1>6. CASE Probe(p)
  <2>1. UNCHANGED <<store, request, at>> /\ pc[p] = "probe"
    BY <1>6 DEF Probe, inputs
  <2>2. CASE pc' = [pc EXCEPT ![p] = "return"]
    BY <2>1, <2>2, MoveKeeps
  <2>3. CASE pc' = [pc EXCEPT ![p] = "putManifest"]
    <3>1. Shapes'
      BY <1>0, <2>1, <2>3 DEF Inv, Shapes, Labels, store
    <3>2. Mine(p)'
      BY <1>0, <2>1, <2>3 DEF Mine, Whole, Held, store
    <3> QED
      BY <1>0, <2>1, <2>3, <3>1, <3>2, QuietKeeps
  <2> QED
    BY <1>6, <2>2, <2>3 DEF Probe, Go
<1>7. CASE PutManifest(p)
  <2>1. pc[p] = "putManifest" /\ request[p] \in Requests /\ Whole(request[p])
    BY <1>0, <1>7 DEF PutManifest, Mine
  <2>2. Stamp(p) \in Manifests /\ Stamp(p).request = request[p]
    BY <2>1 DEF Stamp, Manifests
  <2>3. Allowed(Completion, Stamp(p))
    BY <2>1, <2>2 DEF Allowed
  <2> QED
    BY <1>7, <2>1, <2>3, PutKeeps DEF PutManifest, local, inputs
<1>8. CASE ReadManifest(p)
  BY <1>8, MoveKeeps DEF ReadManifest, Go, Fail, local, inputs
<1>9. CASE Return(p)
  BY <1>9, MoveKeeps DEF Return, Go, local, inputs
<1>10. CASE Attest(p)
  BY <1>10, MoveKeeps DEF Attest, Go, Fail, local, inputs
<1>11. CASE ProbeResult(p)
  BY <1>11, MoveKeeps DEF ProbeResult, Go, Fail, local, inputs
<1> QED
  BY <1>1, <1>2, <1>3, <1>4, <1>5, <1>6, <1>7, <1>8, <1>9, <1>10, <1>11 DEF Step

LEMMA NextKeeps ==
    ASSUME WellChosen, Inv, [Next]_vars
    PROVE  Inv'
<1>1. ASSUME NEW p \in Runs, Step(p) PROVE Inv'
  BY <1>1, StepKeeps
<1>2. ASSUME NEW p \in Runs, Crash(p) PROVE Inv'
  BY <1>2, MoveKeeps DEF Crash, Fail, Go, local, inputs
<1>3. CASE Land
  BY <1>3, LandKeeps
<1>4. CASE CanaryCreate \/ CanaryProbe \/ UNCHANGED vars
  <2>1. UNCHANGED <<blobs, manifest, late, request, pc, at>>
    BY <1>4 DEF CanaryCreate, CanaryProbe, vars, store, inputs, local
  <2> QED
    BY <2>1 DEF Inv, Shapes, AllMine, Mine, Chain, Complete, LateOK, Allowed, Whole, Held
<1> QED
  BY <1>1, <1>2, <1>3, <1>4 DEF Next

-----------------------------------------------------------------------------
(* The completion manifest stands for the release it names                 *)
(* (CompleteManifest): whoever wrote the payloads, and however late.       *)
THEOREM ManifestSafe == Spec => []CompleteManifest
<1>1. Inv /\ [Next]_vars => Inv'
  BY NextKeeps, RegistryConstants
<1>2. Inv => CompleteManifest
  <2> SUFFICES ASSUME Inv, manifest # None, NEW f \in Files
               PROVE  blobs[f] = Content(manifest.request, f)
    BY DEF CompleteManifest
  <2>1. f < NFiles + 1
    BY RegistryConstants DEF Files, WellChosen
  <2> QED
    BY <2>1 DEF Inv, Complete, Whole, Held
<1> QED
  BY <1>1, <1>2, InitInv, PTL, RegistryConstants DEF Spec

(* The receipts of two acceptances are never mixed under the prefix        *)
(* (NoMixture), although their executions race for each file.              *)
THEOREM MixtureSafe == Spec => []NoMixture
<1>1. Inv /\ [Next]_vars => Inv'
  BY NextKeeps, RegistryConstants
<1>2. Inv => NoMixture
  <2> SUFFICES ASSUME Inv, NEW f \in Differs, NEW g \in Differs,
                      blobs[f] # None, blobs[g] # None, f <= g
               PROVE  blobs[f][1] = blobs[g][1]
    BY RegistryConstants DEF NoMixture, WellChosen, Files
  <2>1. f \in Files /\ g \in Files
    BY RegistryConstants DEF WellChosen
  <2>2. PICK r \in Requests : Held(r, g + 1)
    BY <2>1 DEF Inv, Chain
  <2>3. f < g + 1 /\ g < g + 1
    BY <2>1 DEF Files, WellChosen
  <2>4. blobs[f] = Content(r, f) /\ blobs[g] = Content(r, g)
    BY <2>1, <2>2, <2>3 DEF Held
  <2> QED
    BY <2>4 DEF Content
<1> QED
  BY <1>1, <1>2, InitInv, PTL, RegistryConstants DEF Spec

-----------------------------------------------------------------------------
(* What is on its way to the store, and what is there, comes from an       *)
(* execution that was bound to it.                                         *)
Sourced(n, v) ==
    \/ n \in Files /\ \E p \in Runs : v = Content(bound[p], n)
    \/ n = Completion /\ v.request = bound[v.by]

Sources ==
    /\ \A f \in Files : blobs[f] # None => Sourced(f, blobs[f])
    /\ manifest # None => Sourced(Completion, manifest)
    /\ \A m \in late : m = <<m[1], m[2]>> /\ Sourced(m[1], m[2])

(* The rest of the shapes.                                                 *)
Kinds ==
    /\ created \in [Runs -> 0 .. NFiles]
    /\ completed \in [Runs -> BOOLEAN] /\ proved \in [Runs -> BOOLEAN]
    /\ envelope \in [Runs -> BOOLEAN] /\ success \in [Runs -> BOOLEAN]
    /\ result = [p \in Runs |-> result[p]] /\ after = [p \in Runs |-> after[p]]
    /\ canary \in {"none", "written", "ready", "failed"}

Busy == {"preflight", "get", "put", "negative", "probe", "putManifest", "readManifest"}

(* The run has a report that its attestation and its history stand for.    *)
Reported(p) == pc[p] \in {"attest", "probeResult"} \/ success[p]

(* What a run has done since its download, and what its report says: a run *)
(* that found the manifest created nothing, any other has proved the       *)
(* refusal of an overwrite; and a run that began after a success has found *)
(* the manifest.                                                           *)
Works(p) ==
    /\ pc[p] \in Busy => request[p] = bound[p]
    /\ pc[p] \in {"get", "put", "negative"} => created[p] < at[p]
    /\ pc[p] \in {"put", "negative", "putManifest", "readManifest"} => ~completed[p]
    /\ pc[p] \in {"putManifest", "readManifest"} => proved[p]
    /\ pc[p] \in {"get", "probe", "return"} /\ completed[p] => created[p] = 0 /\ manifest # None
    /\ pc[p] = "return" => manifest # None /\ (proved[p] \/ completed[p])
    /\ pc[p] # "rejected"
    /\ result[p] # None \/ Reported(p) => manifest # None /\ result[p].manifest = manifest
    /\ Reported(p) => Bounded(result[p])
    /\ pc[p] = "probeResult" \/ success[p] => envelope[p]
    /\ success[p] => pc[p] = "idle"

After(p) ==
    /\ after[p] # {} => manifest # None
    /\ after[p] # {} /\ pc[p] \in (Busy \ {"preflight"}) \union {"return"} => completed[p]
    /\ after[p] # {} /\ Reported(p) =>
           result[p].created = 0 /\ result[p].negative = "not-run-completed"

Earlier == \A p, q \in Runs : p \in after[q] => p # q /\ success[p]

Access ==
    /\ grants \subseteq Tried
    /\ canary = "ready" \/ (\E p \in Runs : success[p]) => grants = {}

Told == Kinds /\ (\A p \in Runs : Works(p) /\ After(p)) /\ Earlier /\ Access

-----------------------------------------------------------------------------
(* A manifest that is there stays.                                         *)
Kept == manifest # None => manifest' = manifest

Same(q) ==
    /\ pc'[q] = pc[q] /\ at'[q] = at[q] /\ request'[q] = request[q]
    /\ completed'[q] = completed[q] /\ created'[q] = created[q] /\ proved'[q] = proved[q]
    /\ result'[q] = result[q] /\ envelope'[q] = envelope[q] /\ success'[q] = success[q]
    /\ after'[q] = after[q]

LEMMA OtherWorks ==
    ASSUME NEW q \in Runs, Works(q), After(q), Same(q), Kept, UNCHANGED bound
    PROVE  Works(q)' /\ After(q)'
<1>1. Reported(q)' <=> Reported(q)
  BY DEF Reported, Same
<1>2. Bounded(result[q])' <=> Bounded(result[q])
  BY DEF Bounded, Same
<1>3. Works(q)'
  BY <1>1, <1>2 DEF Works, Same, Kept
<1>4. After(q)'
  BY <1>1 DEF After, Same, Kept
<1> QED
  BY <1>3, <1>4

(* A step of one run: the others keep what they have, and success stays.   *)
LEMMA RunTells ==
    ASSUME Told, NEW p \in Runs, Kept, UNCHANGED <<bound, grants>>, Kinds',
           \A q \in Runs : q # p => Same(q),
           Works(p)', After(p)',
           success[p] => success'[p],
           success'[p] => success[p] \/ grants = {},
           after'[p] = after[p] \/ (after'[p] = {q \in Runs : success[q]} /\ ~success[p]),
           canary' = canary
    PROVE  Told'
<1>1. \A q \in Runs : Works(q)' /\ After(q)'
  BY OtherWorks DEF Told
<1>2. Earlier'
  BY DEF Told, Earlier, Same
<1>3. Access'
  BY DEF Told, Access, Same
<1> QED
  BY <1>1, <1>2, <1>3 DEF Told

(* A run that fails, or dies, has no report to stand for.                  *)
LEMMA FailTells ==
    ASSUME Inv, Told, NEW p \in Runs, pc[p] # "idle", pc' = [pc EXCEPT ![p] = "idle"], Kept,
           UNCHANGED <<bound, grants, request, local, result, success, after, canary>>,
           envelope' \in {envelope, [envelope EXCEPT ![p] = TRUE]}
    PROVE  Told'
<1>1. /\ pc'[p] = "idle"
      /\ \A q \in Runs : q # p => pc'[q] = pc[q] /\ envelope'[q] = envelope[q]
      /\ envelope' \in [Runs -> BOOLEAN]
  BY DEF Inv, Shapes, Told, Kinds
<1>2. ~success[p]
  BY DEF Told, Works
<1>3. Works(p)' /\ After(p)'
  BY <1>1, <1>2 DEF Told, Works, After, Reported, Kept, Busy, local
<1>4. \A q \in Runs : q # p => Same(q)
  BY <1>1 DEF Same, local
<1>5. Kinds'
  BY <1>1 DEF Told, Kinds, local
<1> QED
  BY <1>2, <1>3, <1>4, <1>5, RunTells

-----------------------------------------------------------------------------
(* What is known of the run that takes the step.                           *)
LEMMA RunKnows ==
    ASSUME WellChosen, Inv, Told, NEW p \in Runs
    PROVE  /\ pc \in [Runs -> Labels] /\ at \in [Runs -> Files]
           /\ request \in [Runs -> Artifacts \union {None}]
           /\ at[p] \in Nat /\ created[p] \in Nat /\ NFiles \in Nat
           /\ at[p] <= NFiles /\ 1 <= at[p] /\ created[p] <= NFiles
           /\ Works(p) /\ After(p) /\ Kinds
BY DEF WellChosen, Inv, Shapes, Told, Kinds, Files

LEMMA DownloadTells ==
    ASSUME WellChosen, Inv, Told, NEW p \in Runs, Download(p)
    PROVE  Told'
<1>1. /\ pc[p] = "idle" /\ ~success[p]
      /\ request' = [request EXCEPT ![p] = bound[p]]
      /\ pc' = [pc EXCEPT ![p] = "preflight"]
      /\ after' = [after EXCEPT ![p] = {q \in Runs : success[q]}]
      /\ envelope' = [envelope EXCEPT ![p] = FALSE]
      /\ UNCHANGED <<store, grants, bound, local, result, success, canary>>
  BY DEF Download, Go, NewCoordinates
<1>2. Kinds' /\ \A q \in Runs : q # p => Same(q)
  BY <1>1, RunKnows DEF Kinds, Same, local
<1>3. /\ pc'[p] = "preflight" /\ request'[p] = bound[p] /\ ~success'[p]
      /\ after'[p] = {q \in Runs : success[q]}
  BY <1>1, RunKnows DEF Kinds
<1>4. after'[p] # {} => manifest # None
  BY <1>3 DEF Told, Works, Reported
<1>5. Works(p)' /\ After(p)'
  BY <1>1, <1>3, <1>4, RunKnows DEF Works, After, Reported, Busy, store, local
<1> QED
  BY <1>1, <1>2, <1>3, <1>5, RunTells DEF Kept, store

(* A run that began after a success meets the manifest here.               *)
LEMMA PreflightTells ==
    ASSUME WellChosen, Inv, Told, NEW p \in Runs, Preflight(p)
    PROVE  Told'
<1>1. /\ pc[p] = "preflight"
      /\ UNCHANGED <<store, bound, grants, request, result, envelope, success, after, canary>>
  BY DEF Preflight, inputs, proof
<1>2. Kept
  BY <1>1 DEF Kept, store
<1>3. CASE pc' = [pc EXCEPT ![p] = "idle"] /\ UNCHANGED local
  BY <1>1, <1>2, <1>3, FailTells
<1>4. CASE /\ completed' = [completed EXCEPT ![p] = manifest # None]
           /\ at' = [at EXCEPT ![p] = 1]
           /\ created' = [created EXCEPT ![p] = 0]
           /\ proved' = [proved EXCEPT ![p] = FALSE]
           /\ pc' = [pc EXCEPT ![p] = "get"]
  <2>1. Kinds' /\ \A q \in Runs : q # p => Same(q)
    BY <1>1, <1>4, RunKnows DEF Kinds, Same
  <2>2. /\ pc'[p] = "get" /\ at'[p] = 1 /\ created'[p] = 0
        /\ completed'[p] <=> manifest # None
    BY <1>4, RunKnows DEF Kinds
  <2>3. request[p] = bound[p] /\ ~success[p] /\ (after[p] # {} => manifest # None)
        /\ (result[p] # None => manifest # None /\ result[p].manifest = manifest)
    BY <1>1, RunKnows DEF Works, After, Busy
  <2>4. Works(p)' /\ After(p)'
    BY <1>1, <2>2, <2>3 DEF Works, After, Reported, Busy, store
  <2> QED
    BY <1>1, <1>2, <2>1, <2>3, <2>4, RunTells
<1> QED
  BY <1>3, <1>4 DEF Preflight, Fail, Go

(* A step at one of the labels between, which changes neither what the run *)
(* has reported nor whether it succeeded.                                  *)
LEMMA WorkTells ==
    ASSUME Inv, Told, NEW p \in Runs, NEW label \in Labels, Kept,
           pc[p] \in Busy \ {"preflight"},
           pc' = [pc EXCEPT ![p] = label],
           label \in (Busy \ {"preflight"}) \union {"return"},
           UNCHANGED <<bound, grants, request, completed, result, envelope, success, after,
                       canary>>,
           Kinds',
           \A q \in Runs : q # p => /\ at'[q] = at[q] /\ created'[q] = created[q]
                                    /\ proved'[q] = proved[q],
           label \in {"get", "put", "negative"} => created'[p] < at'[p],
           label \in {"put", "negative", "putManifest", "readManifest"} => ~completed[p],
           label \in {"putManifest", "readManifest"} => proved'[p],
           label \in {"get", "probe", "return"} /\ completed[p] =>
               created'[p] = 0 /\ manifest # None,
           label = "return" => manifest' # None /\ (proved'[p] \/ completed[p])
    PROVE  Told'
<1>1. pc'[p] = label /\ \A q \in Runs : q # p => pc'[q] = pc[q]
  BY DEF Inv, Shapes
<1>2. Works(p) /\ After(p) /\ ~success[p] /\ request[p] = bound[p]
  BY DEF Told, Works, Busy
<1>3. Works(p)'
  BY <1>1, <1>2 DEF Works, Reported, Kept, Busy
<1>4. After(p)'
  BY <1>1, <1>2 DEF After, Reported, Kept, Busy
<1>5. \A q \in Runs : q # p => Same(q)
  BY <1>1 DEF Same
<1> QED
  BY <1>2, <1>3, <1>4, <1>5, RunTells

(* The payload at hand is done: there is another one, or none.             *)
LEMMA AfterPayloadTells ==
    ASSUME WellChosen, Inv, Told, NEW p \in Runs, UNCHANGED <<store, inputs, proof, canary>>,
           AfterPayload(p), UNCHANGED completed, Kinds',
           pc[p] \in {"get", "negative"},
           \A q \in Runs : q # p => created'[q] = created[q] /\ proved'[q] = proved[q],
           created'[p] \in Nat, created'[p] <= at[p],
           completed[p] => created'[p] = 0 /\ pc[p] = "get"
    PROVE  Told'
<1>1. /\ UNCHANGED <<bound, grants, request, result, envelope, success, after, canary>>
      /\ Kept /\ pc[p] \in Busy \ {"preflight"}
      /\ completed[p] => manifest # None
  BY RunKnows DEF inputs, proof, store, Kept, Busy, Works
<1>2. CASE at' = [at EXCEPT ![p] = @ + 1] /\ Go(p, "get")
  <2>1. at'[p] = at[p] + 1 /\ \A q \in Runs : q # p => at'[q] = at[q]
    BY <1>2, RunKnows
  <2>2. created'[p] < at'[p]
    BY <2>1, RunKnows
  <2> QED
    BY <1>1, <1>2, <2>1, <2>2, WorkTells DEF Go, Labels, Busy
<1>3. CASE Go(p, "probe") /\ UNCHANGED at
  BY <1>1, <1>3, WorkTells DEF Go, Labels, Busy
<1> QED
  BY <1>2, <1>3 DEF AfterPayload

LEMMA GetTells ==
    ASSUME WellChosen, Inv, Told, NEW p \in Runs, Get(p)
    PROVE  Told'
<1>1. /\ pc[p] = "get" /\ UNCHANGED <<store, completed, created, proved, inputs, proof, canary>>
      /\ UNCHANGED <<bound, grants, request, result, envelope, success, after>>
      /\ Kept /\ Kinds'
  BY RunKnows DEF Get, inputs, proof, store, Kept, Kinds
<1>2. CASE Verified(p) /\ AfterPayload(p)
  BY <1>1, <1>2, AfterPayloadTells, RunKnows DEF Works
<1>3. CASE pc' = [pc EXCEPT ![p] = "idle"] /\ UNCHANGED at
  BY <1>1, <1>3, FailTells DEF local
<1>4. CASE Go(p, "put") /\ ~completed[p] /\ UNCHANGED at
  <2>1. created'[p] < at'[p]
    BY <1>1, <1>4, RunKnows DEF Works
  <2> QED
    BY <1>1, <1>4, <2>1, WorkTells DEF Go, Labels, Busy
<1> QED
  BY <1>2, <1>3, <1>4 DEF Get, Fail, Go

LEMMA NegativeTells ==
    ASSUME WellChosen, Inv, Told, NEW p \in Runs, Negative(p)
    PROVE  Told'
<1>1. /\ pc[p] = "negative" /\ UNCHANGED <<store, completed, inputs, proof, canary>>
      /\ created' = [created EXCEPT ![p] = @ + 1] /\ proved' = [proved EXCEPT ![p] = TRUE]
      /\ UNCHANGED <<bound, grants, request, result, envelope, success, after>>
      /\ Kept
  BY DEF Negative, inputs, proof, store, Kept
<1>2. created[p] < at[p] /\ ~completed[p] /\ ~success[p]
  BY <1>1, RunKnows DEF Works
<1>3. /\ created'[p] = created[p] + 1 /\ created'[p] \in 0 .. NFiles /\ created'[p] <= at[p]
      /\ created'[p] \in Nat
      /\ \A q \in Runs : q # p => created'[q] = created[q] /\ proved'[q] = proved[q]
  BY <1>1, <1>2, RunKnows DEF Kinds
<1>4. Kinds'
  BY <1>1, <1>3, RunKnows DEF Kinds
<1>5. CASE Verified(p) /\ AfterPayload(p)
  BY <1>1, <1>2, <1>3, <1>4, <1>5, AfterPayloadTells, RunKnows
<1>6. CASE pc' = [pc EXCEPT ![p] = "idle"] /\ UNCHANGED at
  <2>1. pc'[p] = "idle" /\ \A q \in Runs : q # p => pc'[q] = pc[q]
    BY <1>6, RunKnows
  <2>2. Works(p)' /\ After(p)'
    BY <1>1, <1>2, <2>1, RunKnows DEF Works, After, Reported, Busy, store
  <2>3. \A q \in Runs : q # p => Same(q)
    BY <1>1, <1>3, <1>6, <2>1 DEF Same
  <2> QED
    BY <1>1, <1>4, <2>2, <2>3, RunTells
<1> QED
  BY <1>5, <1>6 DEF Negative, Fail, Go

(* What a write does to the manifest.                                      *)
LEMMA CreateKept ==
    ASSUME NEW n, NEW v, Create(n, v)
    PROVE  Kept
BY DEF Create, Stored, Kept

LEMMA PutTells ==
    ASSUME WellChosen, Inv, Told, NEW p \in Runs, Upload(p) \/ PutManifest(p)
    PROVE  Told'
<1>1. /\ pc[p] \in {"put", "putManifest"} /\ UNCHANGED <<local, inputs, proof, canary>>
      /\ UNCHANGED <<bound, grants, request, result, envelope, success, after, at, completed,
                     created, proved>>
      /\ Kinds'
  BY RunKnows DEF Upload, PutManifest, inputs, proof, local, Kinds
<1>2. /\ Kept
      /\ \/ pc' = [pc EXCEPT ![p] = "idle"]
         \/ pc[p] = "put" /\ pc' = [pc EXCEPT ![p] = "negative"]
         \/ pc[p] = "putManifest" /\ pc' = [pc EXCEPT ![p] = "readManifest"]
  BY CreateKept DEF Upload, PutManifest, Put, Go, Fail, Kept, store
<1>3. CASE pc' = [pc EXCEPT ![p] = "idle"]
  BY <1>1, <1>2, <1>3, FailTells
<1>4. CASE pc[p] = "put" /\ pc' = [pc EXCEPT ![p] = "negative"]
  <2>1. created'[p] < at'[p] /\ ~completed[p]
    BY <1>1, <1>4, RunKnows DEF Works
  <2> QED
    BY <1>1, <1>2, <1>4, <2>1, WorkTells DEF Labels, Busy
<1>5. CASE pc[p] = "putManifest" /\ pc' = [pc EXCEPT ![p] = "readManifest"]
  <2>1. ~completed[p] /\ proved'[p]
    BY <1>1, <1>5, RunKnows DEF Works
  <2> QED
    BY <1>1, <1>2, <1>5, <2>1, WorkTells DEF Labels, Busy
<1> QED
  BY <1>2, <1>3, <1>4, <1>5

(* A run that has created nothing proves the refusal here.                 *)
LEMMA ProbeTells ==
    ASSUME WellChosen, Inv, Told, NEW p \in Runs, Probe(p)
    PROVE  Told'
<1>1. /\ pc[p] = "probe" /\ proved' = [proved EXCEPT ![p] = ~completed[p]]
      /\ UNCHANGED <<store, at, completed, created, canary>>
      /\ UNCHANGED <<bound, grants, request, result, envelope, success, after>>
      /\ Kept
      /\ pc' = [pc EXCEPT ![p] = IF completed[p] THEN "return" ELSE "putManifest"]
  BY DEF Probe, inputs, proof, store, Kept, Go
<1>2. /\ proved'[p] <=> ~completed[p]
      /\ Kinds'
      /\ \A q \in Runs : q # p => proved'[q] = proved[q]
  BY <1>1, RunKnows DEF Kinds
<1>3. completed[p] => created[p] = 0 /\ manifest # None
  BY <1>1, RunKnows DEF Works
<1>4. CASE completed[p]
  <2>1. pc' = [pc EXCEPT ![p] = "return"]
    BY <1>1, <1>4
  <2>2. manifest' # None
    BY <1>1, <1>3, <1>4 DEF store
  <2> QED
    BY <1>1, <1>2, <1>3, <1>4, <2>1, <2>2, WorkTells DEF Labels, Busy
<1>5. CASE ~completed[p]
  <2>1. pc' = [pc EXCEPT ![p] = "putManifest"] /\ proved'[p]
    BY <1>1, <1>2, <1>5
  <2>2. "putManifest" \in Labels /\ pc[p] \in Busy \ {"preflight"}
    BY <1>1 DEF Labels, Busy
  <2> QED
    BY <1>1, <1>2, <1>5, <2>1, <2>2, WorkTells DEF Busy
<1> QED
  BY <1>4, <1>5

LEMMA ReadManifestTells ==
    ASSUME WellChosen, Inv, Told, NEW p \in Runs, ReadManifest(p)
    PROVE  Told'
<1>1. /\ pc[p] = "readManifest" /\ UNCHANGED <<store, local, canary>>
      /\ UNCHANGED <<bound, grants, request, result, envelope, success, after, at, completed,
                     created, proved>>
      /\ Kept /\ Kinds'
  BY RunKnows DEF ReadManifest, inputs, proof, local, store, Kept, Kinds
<1>2. CASE manifest = Stamp(p) /\ pc' = [pc EXCEPT ![p] = "return"]
  <2>1. ~completed[p] /\ proved'[p]
    BY <1>1, <1>2, RunKnows DEF Works
  <2>2. manifest' # None
    <3>1. Stamp(p) \in Manifests
      BY <1>1, RunKnows DEF Stamp, Manifests, Inv, AllMine, Mine
    <3> QED
      BY <1>1, <1>2, <3>1 DEF WellChosen, store
  <2>3. "return" \in Labels /\ pc[p] \in Busy \ {"preflight"}
    BY <1>1 DEF Labels, Busy
  <2> QED
    BY <1>1, <1>2, <2>1, <2>2, <2>3, WorkTells
<1>3. CASE pc' = [pc EXCEPT ![p] = "idle"]
  BY <1>1, <1>3, FailTells
<1> QED
  BY <1>2, <1>3 DEF ReadManifest, Go, Fail

(* The report of a run is never refused, and says what is stored.          *)
LEMMA ReturnTells ==
    ASSUME WellChosen, Inv, Told, NEW p \in Runs, Return(p)
    PROVE  Told'
<1>1. /\ pc[p] = "return" /\ ~success[p] /\ manifest # None
      /\ completed[p] => created[p] = 0
      /\ proved[p] \/ completed[p]
  BY RunKnows DEF Return, Works
<1>2. /\ UNCHANGED <<store, local, bound, grants, request, envelope, success, after, canary>>
      /\ Kept
  BY DEF Return, inputs, store, Kept
<1>3. /\ Report(p).manifest = manifest /\ Bounded(Report(p))
      /\ completed[p] => Report(p).created = 0 /\ Report(p).negative = "not-run-completed"
  BY <1>1, RunKnows DEF Report, Bounded
<1>4. result' = [result EXCEPT ![p] = Report(p)] /\ pc' = [pc EXCEPT ![p] = "attest"]
  BY <1>3 DEF Return, Go
<1>5. /\ result'[p] = Report(p) /\ pc'[p] = "attest" /\ manifest' = manifest
      /\ \A q \in Runs : q # p => result'[q] = result[q] /\ pc'[q] = pc[q]
  BY <1>2, <1>4, RunKnows DEF Kinds, store
<1>6. Kinds' /\ \A q \in Runs : q # p => Same(q)
  BY <1>2, <1>4, <1>5, RunKnows DEF Kinds, Same, local
<1>7. Bounded(result[p])'
  BY <1>3, <1>5 DEF Bounded
<1>8. Works(p)'
  <2>1. ~success'[p]
    BY <1>1, <1>2
  <2> QED
    BY <1>1, <1>3, <1>5, <1>7, <2>1 DEF Works, Busy
<1>9. After(p)'
  BY <1>1, <1>2, <1>3, <1>5, RunKnows DEF After, Busy
<1> QED
  BY <1>1, <1>2, <1>6, <1>8, <1>9, RunTells

LEMMA AttestTells ==
    ASSUME WellChosen, Inv, Told, NEW p \in Runs, Attest(p)
    PROVE  Told'
<1>1. /\ pc[p] = "attest" /\ UNCHANGED <<store, local, bound, grants, request, result, success,
                                         after, canary>>
      /\ Kept
  BY DEF Attest, inputs, store, Kept
<1>2. CASE /\ pc' = [pc EXCEPT ![p] = "idle"]
           /\ envelope' \in {envelope, [envelope EXCEPT ![p] = TRUE]}
  BY <1>1, <1>2, FailTells
<1>3. CASE pc' = [pc EXCEPT ![p] = "probeResult"] /\ envelope' = [envelope EXCEPT ![p] = TRUE]
  <2>1. /\ pc'[p] = "probeResult" /\ envelope'[p] /\ manifest' = manifest
        /\ \A q \in Runs : q # p => pc'[q] = pc[q] /\ envelope'[q] = envelope[q]
    BY <1>1, <1>3, RunKnows DEF Kinds, store
  <2>2. Kinds' /\ \A q \in Runs : q # p => Same(q)
    BY <1>1, <1>3, <2>1, RunKnows DEF Kinds, Same, local
  <2>3. ~success[p] /\ manifest # None /\ result[p].manifest = manifest /\ Bounded(result[p])
    BY <1>1, RunKnows DEF Works, Reported
  <2>4. Bounded(result[p])'
    BY <1>1, <2>3 DEF Bounded
  <2>5. Works(p)' /\ After(p)'
    BY <1>1, <2>1, <2>3, <2>4, RunKnows DEF Works, After, Reported, Busy
  <2> QED
    BY <1>1, <2>2, <2>3, <2>5, RunTells
<1> QED
  BY <1>2, <1>3 DEF Attest, Go, Fail

(* A success stands for the grants, for the attestation and its report.    *)
LEMMA ProbeResultTells ==
    ASSUME WellChosen, Inv, Told, NEW p \in Runs, ProbeResult(p)
    PROVE  Told'
<1>1. /\ pc[p] = "probeResult" /\ UNCHANGED <<store, local, bound, grants, request, result,
                                              envelope, after, canary>>
      /\ Kept /\ success' = [success EXCEPT ![p] = Denied]
      /\ pc' = [pc EXCEPT ![p] = "idle"]
  BY DEF ProbeResult, inputs, store, Kept, Fail, Go
<1>2. /\ pc'[p] = "idle" /\ manifest' = manifest /\ (success'[p] <=> Denied)
      /\ \A q \in Runs : q # p => pc'[q] = pc[q] /\ success'[q] = success[q]
  BY <1>1, RunKnows DEF Kinds, store
<1>3. Kinds' /\ \A q \in Runs : q # p => Same(q)
  <2>1. Denied \in BOOLEAN
    BY DEF Denied
  <2> QED
    BY <1>1, <1>2, <2>1, RunKnows DEF Kinds, Same, local
<1>4. /\ ~success[p] /\ envelope[p] /\ manifest # None /\ result[p].manifest = manifest
      /\ Bounded(result[p])
      /\ after[p] # {} => result[p].created = 0 /\ result[p].negative = "not-run-completed"
  BY <1>1, RunKnows DEF Works, After, Reported
<1>5. success'[p] => grants = {}
  BY <1>2 DEF Denied, Told, Access
<1>6. Bounded(result[p])'
  BY <1>1, <1>4 DEF Bounded
<1>7. Works(p)' /\ After(p)'
  BY <1>1, <1>2, <1>4, <1>6 DEF Works, After, Busy
<1> QED
  BY <1>1, <1>3, <1>4, <1>5, <1>7, RunTells

LEMMA NextTells ==
    ASSUME WellChosen, Inv, Told, [Next]_vars
    PROVE  Told'
<1>1. ASSUME NEW p \in Runs, Step(p) PROVE Told'
  BY <1>1, DownloadTells, PreflightTells, GetTells, PutTells, NegativeTells, ProbeTells,
     ReadManifestTells, ReturnTells, AttestTells, ProbeResultTells DEF Step
<1>2. ASSUME NEW p \in Runs, Crash(p) PROVE Told'
  <2>1. /\ pc[p] # "idle" /\ pc' = [pc EXCEPT ![p] = "idle"] /\ Kept
        /\ UNCHANGED <<bound, grants, request, local, result, envelope, success, after, canary>>
    BY <1>2 DEF Crash, Fail, Go, inputs, proof, store, Kept
  <2> QED
    BY <2>1, FailTells
<1>3. CASE Land \/ CanaryCreate \/ CanaryProbe \/ UNCHANGED vars
  <2>1. /\ UNCHANGED <<bound, grants, request, pc, at, completed, created, proved, result,
                       envelope, success, after>>
        /\ canary' \in {"none", "written", "ready", "failed"}
        /\ canary' = "ready" => canary = "ready" \/ Denied
    BY <1>3 DEF Land, CanaryCreate, CanaryProbe, vars, inputs, local, proof, Told, Kinds
  <2>2. Kept
    BY <1>3, CreateKept DEF Land, CanaryCreate, CanaryProbe, vars, store, Kept
  <2>3. \A q \in Runs : Works(q)' /\ After(q)'
    BY <2>1, <2>2, OtherWorks DEF Told, Same
  <2>4. Kinds' /\ Earlier'
    BY <2>1 DEF Told, Kinds, Earlier
  <2>5. Access'
    BY <2>1 DEF Told, Access, Denied
  <2> QED
    BY <2>3, <2>4, <2>5 DEF Told
<1> QED
  BY <1>1, <1>2, <1>3 DEF Next

-----------------------------------------------------------------------------
(* Where the contents come from.                                           *)
LEMMA WriteSourced ==
    ASSUME WellChosen, Inv, Sources, UNCHANGED bound, NEW n, NEW v, Sourced(n, v),
           n \in Files \union {Completion},
           Create(n, v) \/ UNCHANGED <<blobs, manifest>>,
           late' \subseteq late \union {<<n, v>>}
    PROVE  Sources'
<1>1. \A k, w : Sourced(k, w)' <=> Sourced(k, w)
  BY DEF Sourced
<1>2. \A f \in Files : blobs'[f] # None => Sourced(f, blobs'[f])
  BY DEF Create, Sources, Inv, Shapes
<1>3. manifest' # None => Sourced(Completion, manifest')
  BY DEF Create, Sources
<1>4. \A m \in late' : m = <<m[1], m[2]>> /\ Sourced(m[1], m[2])
  BY DEF Sources
<1> QED
  BY <1>1, <1>2, <1>3, <1>4 DEF Sources

LEMMA NextSourced ==
    ASSUME WellChosen, Inv, Told, Sources, [Next]_vars
    PROVE  Sources'
<1>1. ASSUME NEW p \in Runs, Upload(p) PROVE Sources'
  <2>1. /\ pc[p] = "put" /\ at[p] \in Files /\ request[p] = bound[p]
    BY <1>1, RunKnows DEF Upload, Works, Busy
  <2>2. Sourced(at[p], Content(request[p], at[p]))
    BY <2>1 DEF Sourced
  <2> QED
    BY <1>1, <2>1, <2>2, WriteSourced DEF Upload, Put, store, inputs
<1>2. ASSUME NEW p \in Runs, PutManifest(p) PROVE Sources'
  <2>1. request[p] = bound[p]
    BY <1>2, RunKnows DEF PutManifest, Works, Busy
  <2>2. Sourced(Completion, Stamp(p))
    BY <2>1 DEF Sourced, Stamp
  <2> QED
    BY <1>2, <2>2, WriteSourced DEF PutManifest, Put, store, inputs
<1>3. CASE Land
  <2>1. PICK m \in late : /\ late' = late \ {m} /\ UNCHANGED bound
                          /\ Create(m[1], m[2]) \/ UNCHANGED <<blobs, manifest>>
    BY <1>3 DEF Land, inputs
  <2>2. Sourced(m[1], m[2]) /\ m[1] \in Files \union {Completion}
    BY DEF Sources, Sourced
  <2> QED
    BY <2>1, <2>2, WriteSourced
<1>4. CASE \/ CanaryCreate \/ CanaryProbe \/ UNCHANGED vars
           \/ \E p \in Runs : Crash(p) \/ (Step(p) /\ ~Upload(p) /\ ~PutManifest(p))
  <2>1. UNCHANGED <<store, bound>>
    BY <1>4 DEF CanaryCreate, CanaryProbe, vars, Crash, Step, Download, Preflight, Get,
       Negative, Probe, ReadManifest, Return, Attest, ProbeResult, inputs
  <2> QED
    BY <2>1 DEF Sources, Sourced, store
<1> QED
  BY <1>1, <1>2, <1>3, <1>4 DEF Next, Step

(* Everything that the run checks of the registry (RegistrySafe) holds for *)
(* any number of executions, requests and payload files: the manifest and  *)
(* the payloads are of one acceptance that an execution was bound to, a    *)
(* report is true and never refused, an execution that began after a       *)
(* success pairs with it, and success proves the grants.                   *)
THEOREM RegistryHolds == Spec => []RegistrySafe
<1>1. Init => Told /\ Sources
  <2> SUFFICES ASSUME Init PROVE Told /\ Sources
    OBVIOUS
  <2>1. Kinds
    BY RegistryConstants DEF Init, Kinds, WellChosen
  <2>2. Earlier /\ Access
    BY DEF Init, Earlier, Access, Tried
  <2>3. \A p \in Runs : Works(p) /\ After(p)
    BY DEF Init, Works, After, Reported, Busy
  <2>4. Sources
    BY DEF Init, Sources
  <2> QED
    BY <2>1, <2>2, <2>3, <2>4 DEF Told
<1>2. Inv /\ Told /\ Sources /\ [Next]_vars => (Inv /\ Told /\ Sources)'
  BY NextKeeps, NextTells, NextSourced, RegistryConstants
<1>3. Inv /\ Told /\ Sources => TypeOK /\ Provenance
  <2> SUFFICES ASSUME Inv, Told, Sources PROVE TypeOK /\ Provenance
    OBVIOUS
  <2>1. \A m \in late : m \in Files \X Contents \/ m \in {Completion} \X Manifests
    <3> SUFFICES ASSUME NEW m \in late
                 PROVE  m \in Files \X Contents \/ m \in {Completion} \X Manifests
      OBVIOUS
    <3>1. m = <<m[1], m[2]>> /\ Allowed(m[1], m[2])
      BY DEF Inv, LateOK, Sources
    <3>2. \/ m[1] \in Files /\ m[2] \in Contents
          \/ m[1] = Completion /\ m[2] \in Manifests
      BY <3>1 DEF Allowed, Contents
    <3> QED
      BY <3>1, <3>2
  <2>2. TypeOK
    BY <2>1 DEF TypeOK, Inv, Shapes, Complete, Told, Kinds
  <2>3. Provenance
    BY DEF Provenance, Sources, Sourced, Completion, Files, WellChosen
  <2> QED
    BY <2>2, <2>3
<1>4. Told => ReportTrue /\ NeverRejected /\ IdempotentPair /\ AccessProven
  <2> SUFFICES ASSUME Told PROVE ReportTrue /\ NeverRejected /\ IdempotentPair /\ AccessProven
    OBVIOUS
  <2>1. ReportTrue /\ NeverRejected /\ AccessProven
    BY DEF Told, Works, Access, ReportTrue, NeverRejected, AccessProven
  <2>2. ASSUME NEW p \in Runs, NEW q \in Runs, Proven(q), p \in after[q] PROVE ResultSet(p, q)
    <3>1. p # q /\ success[p] /\ success[q]
      BY <2>2 DEF Told, Earlier, Proven
    <3>2. /\ envelope[p] /\ Bounded(result[p]) /\ result[p].manifest = result[q].manifest
          /\ result[q].created = 0 /\ result[q].negative = "not-run-completed"
      BY <2>2, <3>1 DEF Told, Works, After, Reported
    <3>3. PersistenceCase(result[p], result[q])
      BY <3>2 DEF PersistenceCase, Bounded
    <3> QED
      BY <2>2, <3>1, <3>2, <3>3 DEF ResultSet, Proven
  <2> QED
    BY <2>1, <2>2 DEF IdempotentPair
<1> QED
  BY <1>1, <1>2, <1>3, <1>4, InitInv, ManifestSafe, MixtureSafe, PTL, RegistryConstants DEF Spec, RegistrySafe

===============================================================================
