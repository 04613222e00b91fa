----------------------- MODULE CertificateManagerProofs -----------------------
(***************************************************************************)
(* CertificateManager: type correctness for any number of processes and,   *)
(* for one process after another, that what is trusted is recorded, that   *)
(* remove leaves nothing and that a site's certificate fits.               *)
(***************************************************************************)
EXTENDS CertificateManager, TLAPS

LEMMA InitType == Init => TypeOK
<1> SUFFICES ASSUME Init PROVE TypeOK
  OBVIOUS
<1> USE DEF Init, Cas, Keys, None
<1>1. siteCert \in [Hosts -> [ca : Cas \union {None}, key : Keys \union {None}]]
  BY DEF NoCert
<1>2. cas \in 0..MaxCas /\ keys \in 0..MaxKeys /\ failures \in 0..MaxFailures
  BY BoundsAssumption
<1>3. pc \in [Processes -> {"idle"}] /\ call \in [Processes -> {"none"}] /\ answer \in [Processes -> {"none"}]
  OBVIOUS
<1>4. siteKey \in [Hosts -> Keys \union {None}]
  OBVIOUS
<1>5. seen \in [Processes -> Cas \union {None}] /\ made \in [Processes -> Keys \union {None}]
      /\ host \in [Processes -> Hosts]
  OBVIOUS
<1> QED
  BY <1>1, <1>2, <1>3, <1>4, <1>5 DEF TypeOK

LEMMA FailsType == TypeOK /\ Fails =>
  cas' \in 0..MaxCas /\ keys' \in 0..MaxKeys /\ failures' \in 0..MaxFailures
BY BoundsAssumption DEF TypeOK, Fails

(* A call that ends where a step fails leaves everything else as it is.      *)
LEMMA FailedType ==
  ASSUME TypeOK, NEW p \in Processes, Done(p, "failed"), Fails, UNCHANGED <<files, store, expired, locals>>
  PROVE  TypeOK'
<1>1. cas' \in 0..MaxCas /\ keys' \in 0..MaxKeys /\ failures' \in 0..MaxFailures
  BY FailsType
<1>2. pc' = [pc EXCEPT ![p] = "idle"] /\ answer' = [answer EXCEPT ![p] = "failed"]
  BY DEF Done
<1> QED
  BY <1>1, <1>2 DEF TypeOK, files, locals, Cas, Keys, None

LEMMA RefusedType ==
  ASSUME TypeOK, NEW p \in Processes, Done(p, "failed"),
         UNCHANGED <<files, store, expired, locals, counts>>
  PROVE  TypeOK'
BY DEF TypeOK, Done, files, locals, counts, Cas, Keys, None

LEMMA ForgetType ==
  ASSUME TypeOK, NEW p \in Processes, NEW from,
         NEW to \in {"makeKey", "delete"}, Forget(p, from, to)
  PROVE  TypeOK'
<1>1. CASE metadata # None /\ Done(p, "failed") /\ Fails /\ UNCHANGED store
  BY <1>1, FailedType DEF Forget
<1>2. CASE metadata = None /\ directory /\ Done(p, "failed") /\ UNCHANGED <<store, counts>>
  BY <1>2, RefusedType DEF Forget
<1>3. CASE /\ metadata # None \/ ~directory
           /\ store' = store \ {metadata} /\ Go(p, from, to) /\ UNCHANGED <<answer, counts>>
  BY <1>3 DEF Forget, TypeOK, Go, files, locals, counts, Cas, Keys, None
<1> QED
  BY <1>1, <1>2, <1>3 DEF Forget

LEMMA EnsureCaType == TypeOK => \A p \in Processes : EnsureCa(p) => TypeOK'
<1> SUFFICES ASSUME TypeOK, NEW p \in Processes, EnsureCa(p) PROVE TypeOK'
  OBVIOUS
<1>1. CASE CheckCa(p)
  BY <1>1 DEF CheckCa, AfterCa, CaValid, TypeOK, Go, files, locals, counts, Cas, Keys, None
<1>2. CASE Record(p)
  <2>1. CASE pc[p] = "record" /\ Done(p, "failed") /\ Fails /\ UNCHANGED <<metadata, directory>>
    BY <1>2, <2>1, FailedType DEF Record, files
  <2>2. CASE metadata' = seen[p] /\ directory' = TRUE /\ Go(p, "record", AfterCa(p))
             /\ UNCHANGED <<answer, counts>>
    BY <1>2, <2>2 DEF Record, AfterCa, TypeOK, Go, locals, counts, Cas, Keys, None
  <2> QED
    BY <1>2, <2>1, <2>2 DEF Record
<1>3. CASE Untrust(p)
  BY <1>3, ForgetType DEF Untrust
<1>4. CASE MakeKey(p)
  <2>1. CASE pc[p] = "makeKey" /\ Done(p, "failed") /\ Fails /\ UNCHANGED <<seen, caKey>>
              /\ directory' \in {directory, TRUE}
    <3>1. cas' \in 0..MaxCas /\ keys' \in 0..MaxKeys /\ failures' \in 0..MaxFailures
      BY <2>1, FailsType
    <3>2. pc' = [pc EXCEPT ![p] = "idle"] /\ answer' = [answer EXCEPT ![p] = "failed"]
      BY <2>1 DEF Done
    <3>3. UNCHANGED <<caKey, caCert, metadata, siteKey, siteCert, store, expired, call, seen, made, host>>
      BY <1>4, <2>1 DEF MakeKey
    <3>4. directory' \in BOOLEAN /\ (~directory' => ~directory)
      <4>1. CASE directory' = directory
        BY <4>1, Zenon DEF TypeOK
      <4>2. CASE directory' = TRUE
        BY <4>2
      <4> QED
        BY <2>1, <4>1, <4>2
    <3>5. /\ caKey \in Cas \union {None} /\ caCert \in Cas \union {None} /\ metadata \in Cas \union {None}
          /\ siteKey \in [Hosts -> Keys \union {None}]
          /\ siteCert \in [Hosts -> [ca : Cas \union {None}, key : Keys \union {None}]]
          /\ store \subseteq Cas /\ expired \subseteq Cas
          /\ call \in [Processes -> {"none", "provision", "ensure", "remove", "prune"}]
          /\ seen \in [Processes -> Cas \union {None}] /\ made \in [Processes -> Keys \union {None}]
          /\ host \in [Processes -> Hosts]
      BY DEF TypeOK
    <3>6. ~directory' => caKey = None /\ caCert = None /\ metadata = None
      BY <3>4 DEF TypeOK
    <3>7. pc' \in [Processes -> {"idle", "status", "check", "untrust", "makeKey", "makeCert", "record",
                                 "recordMade", "install", "checkSite", "issueKey", "issueCert", "verify",
                                 "forget", "delete", "prune"}]
      BY <3>2 DEF TypeOK
    <3>8. answer' \in [Processes -> {"none", "ok", "failed"}]
      BY <3>2 DEF TypeOK
    <3> QED
      BY <3>1, <3>3, <3>4, <3>5, <3>6, <3>7, <3>8 DEF TypeOK
  <2>2. CASE /\ cas < MaxCas /\ cas' = cas + 1
             /\ seen' = [seen EXCEPT ![p] = cas'] /\ caKey' = cas' /\ directory' = TRUE
             /\ Go(p, "makeKey", "makeCert") /\ UNCHANGED <<answer, keys, failures>>
    <3>1. cas' \in 0..MaxCas /\ cas' \in Cas
      BY <2>2, BoundsAssumption DEF TypeOK, Cas
    <3> QED
      BY <1>4, <2>2, <3>1 DEF MakeKey, TypeOK, Go, None
  <2> QED
    BY <1>4, <2>1, <2>2 DEF MakeKey
<1>5. CASE MakeCert(p)
  <2>1. CASE pc[p] = "makeCert" /\ Done(p, "failed") /\ Fails /\ UNCHANGED <<caCert, directory>>
    BY <1>5, <2>1, FailedType DEF MakeCert, files
  <2>2. CASE caCert' = seen[p] /\ directory' = TRUE /\ Go(p, "makeCert", "recordMade")
             /\ UNCHANGED <<answer, counts>>
    BY <1>5, <2>2 DEF MakeCert, TypeOK, Go, locals, counts, Cas, Keys, None
  <2> QED
    BY <1>5, <2>1, <2>2 DEF MakeCert
<1>6. CASE RecordMade(p)
  <2>1. CASE pc[p] = "recordMade" /\ Done(p, "failed") /\ Fails /\ UNCHANGED metadata
    BY <1>6, <2>1, FailedType DEF RecordMade, files
  <2>2. CASE pc[p] = "recordMade" /\ caCert = None /\ Done(p, "failed") /\ UNCHANGED <<metadata, counts>>
    BY <1>6, <2>2, RefusedType DEF RecordMade, files
  <2>3. CASE caCert # None /\ metadata' = caCert /\ Go(p, "recordMade", AfterCa(p))
             /\ UNCHANGED <<answer, counts>>
    BY <1>6, <2>3 DEF RecordMade, AfterCa, TypeOK, Go, locals, counts, Cas, Keys, None
  <2> QED
    BY <1>6, <2>1, <2>2, <2>3 DEF RecordMade
<1>7. CASE Install(p)
  <2>1. CASE Done(p, "failed") /\ Fails /\ UNCHANGED store
    BY <1>7, <2>1, FailedType DEF Install
  <2>2. CASE caCert = None /\ Done(p, "failed") /\ UNCHANGED <<store, counts>>
    BY <1>7, <2>2, RefusedType DEF Install
  <2>3. CASE caCert # None /\ store' = store \union {caCert} /\ Done(p, "ok") /\ UNCHANGED counts
    BY <1>7, <2>3 DEF Install, TypeOK, Done, files, locals, counts, Cas, Keys, None
  <2> QED
    BY <1>7, <2>1, <2>2, <2>3 DEF Install
<1> QED
  BY <1>1, <1>2, <1>3, <1>4, <1>5, <1>6, <1>7 DEF EnsureCa

LEMMA EnsureLeafType == TypeOK => \A p \in Processes : EnsureLeaf(p) => TypeOK'
<1> SUFFICES ASSUME TypeOK, NEW p \in Processes, EnsureLeaf(p) PROVE TypeOK'
  OBVIOUS
<1>1. CASE Status(p)
  BY <1>1 DEF Status, TypeOK, Go, Done, files, locals, counts, Cas, Keys, None
<1>2. CASE CheckSite(p)
  BY <1>2 DEF CheckSite, TypeOK, Go, Done, files, locals, counts, Cas, Keys, None
<1>3. CASE IssueKey(p)
  <2>1. CASE pc[p] = "issueKey" /\ Done(p, "failed") /\ Fails /\ UNCHANGED <<siteKey, directory, seen, made>>
    BY <1>3, <2>1, FailedType DEF IssueKey, files, locals
  <2>2. CASE pc[p] = "issueKey" /\ ~CaValid /\ Done(p, "failed")
             /\ UNCHANGED <<siteKey, directory, seen, made, counts>>
    BY <1>3, <2>2, RefusedType DEF IssueKey, files, locals
  <2>3. CASE /\ CaValid /\ keys < MaxKeys /\ keys' = keys + 1
             /\ siteKey' = [siteKey EXCEPT ![host[p]] = keys'] /\ directory' = TRUE
             /\ seen' = [seen EXCEPT ![p] = caCert] /\ made' = [made EXCEPT ![p] = keys']
             /\ Go(p, "issueKey", "issueCert") /\ UNCHANGED <<answer, cas, failures>>
    <3>1. keys' \in 0..MaxKeys /\ keys' \in Keys
      BY <2>3, BoundsAssumption DEF TypeOK, Keys
    <3> QED
      BY <1>3, <2>3, <3>1 DEF IssueKey, TypeOK, Go, Cas, None
  <2> QED
    BY <1>3, <2>1, <2>2, <2>3 DEF IssueKey
<1>4. CASE IssueCert(p)
  <2>1. CASE pc[p] = "issueCert" /\ Done(p, "failed") /\ Fails /\ UNCHANGED <<siteCert, directory>>
    BY <1>4, <2>1, FailedType DEF IssueCert, files
  <2>2. CASE /\ siteCert' = [siteCert EXCEPT ![host[p]] = [ca |-> seen[p], key |-> made[p]]]
             /\ directory' = TRUE /\ Go(p, "issueCert", "verify") /\ UNCHANGED <<answer, counts>>
    <3>1. [ca |-> seen[p], key |-> made[p]] \in [ca : Cas \union {None}, key : Keys \union {None}]
      BY DEF TypeOK
    <3>2. siteCert' \in [Hosts -> [ca : Cas \union {None}, key : Keys \union {None}]]
      BY <2>2, <3>1 DEF TypeOK
    <3> QED
      BY <1>4, <2>2, <3>2 DEF IssueCert, TypeOK, Go, locals, counts
  <2> QED
    BY <1>4, <2>1, <2>2 DEF IssueCert
<1>5. CASE Verify(p)
  BY <1>5 DEF Verify, TypeOK, Done, files, locals, counts, Cas, Keys, None
<1> QED
  BY <1>1, <1>2, <1>3, <1>4, <1>5 DEF EnsureLeaf

LEMMA DeleteOneType == TypeOK /\ DeleteOne =>
  /\ caKey' \in Cas \union {None} /\ caCert' \in Cas \union {None} /\ metadata' \in Cas \union {None}
  /\ siteKey' \in [Hosts -> Keys \union {None}]
  /\ siteCert' \in [Hosts -> [ca : Cas \union {None}, key : Keys \union {None}]]
  /\ (~directory => caKey' = None /\ caCert' = None /\ metadata' = None)
<1> SUFFICES ASSUME TypeOK, DeleteOne
             PROVE  /\ caKey' \in Cas \union {None} /\ caCert' \in Cas \union {None}
                    /\ metadata' \in Cas \union {None}
                    /\ siteKey' \in [Hosts -> Keys \union {None}]
                    /\ siteCert' \in [Hosts -> [ca : Cas \union {None}, key : Keys \union {None}]]
                    /\ (~directory => caKey' = None /\ caCert' = None /\ metadata' = None)
  OBVIOUS
<1>1. NoCert \in [ca : Cas \union {None}, key : Keys \union {None}]
  BY DEF NoCert
<1>2. /\ caKey' \in {caKey, None} /\ caCert' \in {caCert, None} /\ metadata' \in {metadata, None}
  BY DEF DeleteOne
<1>3. siteKey' \in [Hosts -> Keys \union {None}]
  <2>1. siteKey' = siteKey \/ \E h \in Hosts : siteKey' = [siteKey EXCEPT ![h] = None]
    BY DEF DeleteOne
  <2>2. siteKey \in [Hosts -> Keys \union {None}]
    BY DEF TypeOK
  <2> QED
    BY <2>1, <2>2
<1>4. siteCert' \in [Hosts -> [ca : Cas \union {None}, key : Keys \union {None}]]
  <2>1. siteCert' = siteCert \/ \E h \in Hosts : siteCert' = [siteCert EXCEPT ![h] = NoCert]
    BY DEF DeleteOne
  <2>2. siteCert \in [Hosts -> [ca : Cas \union {None}, key : Keys \union {None}]]
    BY DEF TypeOK
  <2> QED
    BY <1>1, <2>1, <2>2
<1> QED
  BY <1>2, <1>3, <1>4 DEF TypeOK

LEMMA CleanupType == TypeOK => \A p \in Processes : ForgetEntry(p) \/ Delete(p) \/ Prune(p) => TypeOK'
<1> SUFFICES ASSUME TypeOK, NEW p \in Processes, ForgetEntry(p) \/ Delete(p) \/ Prune(p) PROVE TypeOK'
  OBVIOUS
<1>1. CASE ForgetEntry(p)
  BY <1>1, ForgetType DEF ForgetEntry
<1>2. CASE Delete(p)
  <2>1. CASE Done(p, "failed") /\ Fails /\ UNCHANGED files
    BY <1>2, <2>1, FailedType DEF Delete
  <2>2. CASE DeleteOne /\ UNCHANGED <<directory, pc, answer, counts>>
    BY <1>2, <2>2, DeleteOneType DEF Delete, TypeOK, locals, counts
  <2>3. CASE NoFiles /\ directory' = FALSE /\ Done(p, "ok")
             /\ UNCHANGED <<caKey, caCert, metadata, siteKey, siteCert, counts>>
    BY <1>2, <2>3 DEF Delete, NoFiles, TypeOK, Done, locals, counts, Cas, Keys, None
  <2> QED
    BY <1>2, <2>1, <2>2, <2>3 DEF Delete
<1>3. CASE Prune(p)
  <2>1. CASE Done(p, "failed") /\ Fails /\ UNCHANGED <<siteKey, siteCert>>
    BY <1>3, <2>1, FailedType DEF Prune, files
  <2>2. CASE /\ siteKey[host[p]] # None /\ siteKey' = [siteKey EXCEPT ![host[p]] = None]
             /\ UNCHANGED <<siteCert, pc, answer, counts>>
    BY <1>3, <2>2 DEF Prune, TypeOK, locals, counts
  <2>3. CASE /\ siteCert[host[p]] # NoCert /\ siteCert' = [siteCert EXCEPT ![host[p]] = NoCert]
             /\ UNCHANGED <<siteKey, pc, answer, counts>>
    <3>1. NoCert \in [ca : Cas \union {None}, key : Keys \union {None}]
      BY DEF NoCert
    <3> QED
      BY <1>3, <2>3, <3>1 DEF Prune, TypeOK, locals, counts
  <2>4. CASE Done(p, "ok") /\ UNCHANGED <<siteKey, siteCert, counts>>
    BY <1>3, <2>4 DEF Prune, TypeOK, Done, locals, counts
  <2> QED
    BY <1>3, <2>1, <2>2, <2>3, <2>4 DEF Prune
<1> QED
  BY <1>1, <1>2, <1>3

LEMMA CallType == TypeOK => \A p \in Processes :
  Provision(p) \/ EnsureSite(p) \/ Remove(p) \/ PruneSites(p) \/ Crash(p) => TypeOK'
<1> SUFFICES ASSUME TypeOK, NEW p \in Processes PROVE
      Provision(p) \/ EnsureSite(p) \/ Remove(p) \/ PruneSites(p) \/ Crash(p) => TypeOK'
  OBVIOUS
<1> USE DEF TypeOK, Go, Done, files, locals, counts
<1>1. Provision(p) => TypeOK' BY DEF Provision
<1>2. EnsureSite(p) => TypeOK' BY DEF EnsureSite
<1>3. Remove(p) => TypeOK'
  <2>1. Remove(p) /\ directory => TypeOK' BY DEF Remove
  <2>2. Remove(p) /\ ~directory => TypeOK' BY DEF Remove
  <2> QED BY <2>1, <2>2
<1>4. PruneSites(p) => TypeOK' BY DEF PruneSites
<1>5. Crash(p) => TypeOK' BY DEF Crash
<1> QED
  BY <1>1, <1>2, <1>3, <1>4, <1>5

LEMMA NextType == TypeOK /\ [Next]_vars => TypeOK'
<1> SUFFICES ASSUME TypeOK, [Next]_vars PROVE TypeOK'
  OBVIOUS
<1>1. CASE Expire
  BY <1>1 DEF Expire, TypeOK, files, locals, counts
<1>2. CASE UNCHANGED vars
  BY <1>2 DEF vars, TypeOK, files, locals, counts
<1> QED
  BY <1>1, <1>2, CallType, EnsureCaType, EnsureLeafType, CleanupType DEF Next

(* Every reachable state of the certificate files, the root store and the    *)
(* callers' control is of the type TypeOK states; in particular no CA file   *)
(* exists without its directory (certificate_manager.cpp, atomic_write).     *)
THEOREM TypeCorrect == Spec => []TypeOK
<1>1. Init => TypeOK
  BY InitType
<1>2. TypeOK /\ [Next]_vars => TypeOK'
  BY NextType
<1> QED
  BY <1>1, <1>2, PTL DEF Spec

-----------------------------------------------------------------------------
(* Calls that do not overlap.                                                *)

Alone == \A p, q \in Processes : pc[p] # "idle" /\ pc[q] # "idle" => p = q

(* What makes TrustIsRecorded inductive: an entry is of the CA on disk too,  *)
(* and a call holds no other CA when it comes to record or to install.       *)
Recorded ==
  /\ store \subseteq {metadata} /\ store \subseteq {caCert}
  /\ \A p \in Processes :
       /\ pc[p] \in {"makeKey", "makeCert", "recordMade", "delete"} => store = {}
       /\ pc[p] = "record" => seen[p] = caCert
       /\ pc[p] = "install" => metadata = caCert

(* A step that leaves the CA's files and the store alone.                    *)
LEMMA RecordedKept ==
  ASSUME TypeOK, Recorded, UNCHANGED <<caCert, metadata, store>>,
         NEW p \in Processes,
         \A q \in Processes : q # p => pc'[q] = pc[q] /\ seen'[q] = seen[q],
         pc'[p] \notin {"makeKey", "makeCert", "recordMade", "delete", "record", "install"}
  PROVE  Recorded'
BY DEF Recorded

LEMMA RecordedEnsureCa ==
  ASSUME TypeOK, Recorded, Alone, NEW p \in Processes, EnsureCa(p)
  PROVE  Recorded'
<1> DEFINE Others == \A q \in Processes : q # p => pc'[q] = "idle"
<1>1. pc[p] # "idle" /\ pc' = [pc EXCEPT ![p] = pc'[p]]
  BY DEF EnsureCa, CheckCa, Record, Untrust, Forget, MakeKey, MakeCert, RecordMade, Install, Go, Done, TypeOK
<1>2. Others
  BY <1>1 DEF Alone, TypeOK
<1>3. ASSUME Done(p, "failed"), UNCHANGED <<store, seen>>, store' \subseteq {metadata'}, store' \subseteq {caCert'}
      PROVE  Recorded'
  BY <1>2, <1>3 DEF Recorded, Done, TypeOK
<1>4. CASE CheckCa(p)
  <2>1. store = {} \/ metadata # None
    BY DEF Recorded, TypeOK, Cas, None
  <2>2. metadata # caCert => store = {}
    BY DEF Recorded
  <2>3. pc'[p] \in {"makeKey"} => store = {}
    BY <1>4, <2>1 DEF CheckCa, Go, AfterCa, TypeOK
  <2>4. pc'[p] = "record" => seen'[p] = caCert
    BY <1>4 DEF CheckCa, Go, AfterCa, TypeOK
  <2>5. pc'[p] = "install" => metadata = caCert
    BY <1>4 DEF CheckCa, Go, AfterCa, TypeOK
  <2>6. pc'[p] \notin {"makeCert", "recordMade", "delete"}
    BY <1>4 DEF CheckCa, Go, AfterCa, TypeOK
  <2> QED
    BY <1>2, <1>4, <2>3, <2>4, <2>5, <2>6 DEF CheckCa, Recorded, files
<1>5. CASE Record(p)
  <2>1. CASE pc[p] = "record" /\ Done(p, "failed") /\ Fails /\ UNCHANGED <<metadata, directory>>
    BY <1>3, <1>5, <2>1 DEF Record, Recorded, locals
  <2>2. CASE metadata' = seen[p] /\ directory' = TRUE /\ Go(p, "record", AfterCa(p))
             /\ UNCHANGED <<answer, counts>>
    <3>1. metadata' = caCert'
      BY <1>5, <2>2 DEF Record, Recorded, Go
    <3>2. pc'[p] \in {"install", "checkSite"}
      BY <2>2 DEF Go, AfterCa, TypeOK
    <3> QED
      BY <1>2, <1>5, <3>1, <3>2 DEF Record, Recorded, locals
  <2> QED
    BY <1>5, <2>1, <2>2 DEF Record
<1>6. CASE Untrust(p)
  <2>1. CASE Done(p, "failed") /\ UNCHANGED store
    BY <1>3, <1>6, <2>1 DEF Untrust, Forget, Recorded, files, locals
  <2>2. CASE store' = store \ {metadata} /\ Go(p, "untrust", "makeKey")
    <3>1. store' = {} /\ pc'[p] = "makeKey"
      BY <2>2 DEF Recorded, Go, TypeOK
    <3> QED
      BY <1>2, <1>6, <3>1 DEF Untrust, Forget, Recorded, files, locals
  <2> QED
    BY <1>6, <2>1, <2>2 DEF Untrust, Forget
<1>7. CASE MakeKey(p)
  <2>1. CASE Done(p, "failed") /\ UNCHANGED seen
    BY <1>3, <1>7, <2>1 DEF MakeKey, Recorded
  <2>2. CASE Go(p, "makeKey", "makeCert")
    <3>1. store' = {} /\ pc'[p] = "makeCert"
      BY <1>7, <2>2 DEF MakeKey, Recorded, Go, TypeOK
    <3> QED
      BY <1>2, <3>1 DEF Recorded
  <2> QED
    BY <1>7, <2>1, <2>2 DEF MakeKey
<1>8. CASE MakeCert(p)
  <2>1. CASE Done(p, "failed") /\ UNCHANGED caCert
    BY <1>3, <1>8, <2>1 DEF MakeCert, Recorded, locals
  <2>2. CASE Go(p, "makeCert", "recordMade")
    <3>1. store' = {} /\ pc'[p] = "recordMade"
      BY <1>8, <2>2 DEF MakeCert, Recorded, Go, TypeOK
    <3> QED
      BY <1>2, <3>1 DEF Recorded
  <2> QED
    BY <1>8, <2>1, <2>2 DEF MakeCert
<1>9. CASE RecordMade(p)
  <2>1. CASE Done(p, "failed") /\ UNCHANGED metadata
    BY <1>3, <1>9, <2>1 DEF RecordMade, Recorded, locals
  <2>2. CASE metadata' = caCert /\ Go(p, "recordMade", AfterCa(p))
    <3>1. store' = {} /\ pc'[p] \in {"install", "checkSite"} /\ metadata' = caCert'
      BY <1>9, <2>2 DEF RecordMade, Recorded, Go, AfterCa, TypeOK
    <3> QED
      BY <1>2, <3>1 DEF Recorded
  <2> QED
    BY <1>9, <2>1, <2>2 DEF RecordMade
<1>10. CASE Install(p)
  <2>1. CASE Done(p, "failed") /\ UNCHANGED store
    BY <1>3, <1>10, <2>1 DEF Install, Recorded, files, locals
  <2>2. CASE store' = store \union {caCert} /\ Done(p, "ok")
    <3>1. metadata = caCert /\ pc'[p] = "idle"
      BY <1>10, <2>2 DEF Install, Recorded, Done, TypeOK
    <3> QED
      BY <1>2, <1>10, <2>2, <3>1 DEF Install, Recorded, files, locals
  <2> QED
    BY <1>10, <2>1, <2>2 DEF Install
<1> QED
  BY <1>4, <1>5, <1>6, <1>7, <1>8, <1>9, <1>10 DEF EnsureCa

LEMMA RecordedEnsureLeaf ==
  ASSUME TypeOK, Recorded, NEW p \in Processes, EnsureLeaf(p)
  PROVE  Recorded'
<1>1. UNCHANGED <<caCert, metadata, store>>
  BY DEF EnsureLeaf, Status, CheckSite, IssueKey, IssueCert, Verify, files
<1>2. pc'[p] \in {"idle", "check", "issueKey", "issueCert", "verify"}
  BY DEF EnsureLeaf, Status, CheckSite, IssueKey, IssueCert, Verify, Go, Done, TypeOK
<1>3. \A q \in Processes : q # p => pc'[q] = pc[q] /\ seen'[q] = seen[q]
  BY DEF EnsureLeaf, Status, CheckSite, IssueKey, IssueCert, Verify, Go, Done, TypeOK, locals
<1> QED
  BY <1>1, <1>2, <1>3, RecordedKept

LEMMA RecordedCleanup ==
  ASSUME TypeOK, Recorded, Alone, NEW p \in Processes, ForgetEntry(p) \/ Delete(p) \/ Prune(p)
  PROVE  Recorded'
<1>1. \A q \in Processes : q # p => pc'[q] = "idle"
  BY DEF Alone, TypeOK, ForgetEntry, Forget, Delete, Prune, Go, Done
<1>2. CASE ForgetEntry(p)
  <2>1. CASE Done(p, "failed") /\ UNCHANGED store
    BY <1>1, <1>2, <2>1 DEF ForgetEntry, Forget, Recorded, Done, TypeOK, files, locals
  <2>2. CASE store' = store \ {metadata} /\ Go(p, "forget", "delete")
    <3>1. store' = {} /\ pc'[p] = "delete"
      BY <2>2 DEF Recorded, Go, TypeOK
    <3> QED
      BY <1>1, <3>1 DEF Recorded
  <2> QED
    BY <1>2, <2>1, <2>2 DEF ForgetEntry, Forget
<1>3. CASE Delete(p)
  <2>1. store' = {} /\ pc'[p] \in {"idle", "delete"}
    BY <1>3 DEF Delete, Recorded, Done, TypeOK
  <2> QED
    BY <1>1, <2>1 DEF Recorded
<1>4. CASE Prune(p)
  <2>1. pc'[p] \in {"idle", "prune"} /\ \A q \in Processes : q # p => pc'[q] = pc[q] /\ seen'[q] = seen[q]
    BY <1>4 DEF Prune, Done, TypeOK, locals
  <2> QED
    BY <1>4, <2>1, RecordedKept DEF Prune
<1> QED
  BY <1>2, <1>3, <1>4

LEMMA RecordedCall ==
  ASSUME TypeOK, Recorded, NEW p \in Processes,
         Provision(p) \/ EnsureSite(p) \/ Remove(p) \/ PruneSites(p) \/ Crash(p)
  PROVE  Recorded'
<1>1. UNCHANGED <<caCert, metadata, store, seen>>
  BY DEF Provision, EnsureSite, Remove, PruneSites, Crash, files, locals
<1>2. pc'[p] \in {"idle", "check", "status", "forget", "prune"} /\ \A q \in Processes : q # p => pc'[q] = pc[q]
  BY DEF Provision, EnsureSite, Remove, PruneSites, Crash, Go, Done, TypeOK
<1> QED
  BY <1>1, <1>2, RecordedKept

LEMMA RecordedNext == TypeOK /\ Alone /\ Recorded /\ [Next]_vars => Recorded'
<1> SUFFICES ASSUME TypeOK, Alone, Recorded, [Next]_vars PROVE Recorded'
  OBVIOUS
<1>1. CASE Expire \/ UNCHANGED vars
  BY <1>1 DEF Expire, vars, Recorded, files, locals
<1> QED
  BY <1>1, RecordedCall, RecordedEnsureCa, RecordedEnsureLeaf, RecordedCleanup DEF Next

(* ensure_ca_files, provision, remove: however many processes there are, as  *)
(* long as no call of one runs while a call of another does, a CA is trusted *)
(* only while the metadata records it.                                       *)
THEOREM TrustRecorded == Spec /\ []Alone => []TrustIsRecorded
<1>1. Init => Recorded
  BY DEF Init, Recorded
<1>2. Recorded => TrustIsRecorded
  BY DEF Recorded, TrustIsRecorded
<1> QED
  BY <1>1, <1>2, TypeCorrect, RecordedNext, PTL DEF Spec

-----------------------------------------------------------------------------
(* One process after another.                                                *)

(* Only the two steps of remove work for remove, and every file is in the    *)
(* directory: what RemoveIsComplete needs besides Recorded.                  *)
Owned ==
  /\ \A p \in Processes : pc[p] \notin {"idle", "forget", "delete"} => call[p] # "remove"
  /\ ~directory => NoFiles
  /\ RemoveIsComplete

LEMMA OwnedRunning ==
  ASSUME TypeOK, Owned, NEW p \in Processes, \A q \in Processes : q = p, UNCHANGED call,
         pc[p] \notin {"idle", "forget", "delete"},
         pc'[p] \notin {"forget", "delete"},
         directory' \/ (~directory /\ UNCHANGED files)
  PROVE  Owned'
BY DEF Owned, RemoveIsComplete, NoFiles, files

LEMMA OwnedEnsureCa ==
  ASSUME TypeOK, Owned, NEW p \in Processes, \A q \in Processes : q = p, EnsureCa(p)
  PROVE  Owned'
<1>1. pc[p] \notin {"idle", "forget", "delete"} /\ pc'[p] \notin {"forget", "delete"}
  BY DEF EnsureCa, CheckCa, Record, Untrust, Forget, MakeKey, MakeCert, RecordMade, Install, Go, Done,
         AfterCa, TypeOK
<1>2. UNCHANGED call
  BY DEF EnsureCa, CheckCa, Record, Untrust, Forget, MakeKey, MakeCert, RecordMade, Install, locals
<1>3. directory' \/ (~directory /\ UNCHANGED files)
  BY DEF EnsureCa, CheckCa, Record, Untrust, Forget, MakeKey, MakeCert, RecordMade, Install, files, TypeOK
<1> QED
  BY <1>1, <1>2, <1>3, OwnedRunning

LEMMA OwnedEnsureLeaf ==
  ASSUME TypeOK, Owned, NEW p \in Processes, \A q \in Processes : q = p, EnsureLeaf(p)
  PROVE  Owned'
<1>1. pc[p] \notin {"idle", "forget", "delete"} /\ pc'[p] \notin {"forget", "delete"}
  BY DEF EnsureLeaf, Status, CheckSite, IssueKey, IssueCert, Verify, Go, Done, TypeOK
<1>2. UNCHANGED call
  BY DEF EnsureLeaf, Status, CheckSite, IssueKey, IssueCert, Verify, locals
<1>3. directory' \/ (~directory /\ UNCHANGED files)
  BY DEF EnsureLeaf, Status, CheckSite, IssueKey, IssueCert, Verify, files, TypeOK
<1> QED
  BY <1>1, <1>2, <1>3, OwnedRunning

LEMMA OwnedCleanup ==
  ASSUME TypeOK, Recorded, Owned, NEW p \in Processes, \A q \in Processes : q = p,
         ForgetEntry(p) \/ Delete(p) \/ Prune(p)
  PROVE  Owned'
<1>1. CASE ForgetEntry(p)
  <2>1. pc'[p] = "delete" \/ (pc'[p] = "idle" /\ answer'[p] = "failed")
    BY <1>1 DEF ForgetEntry, Forget, Go, Done, TypeOK
  <2> QED
    BY <1>1, <2>1 DEF ForgetEntry, Forget, Owned, RemoveIsComplete, NoFiles, files, locals
<1>2. CASE Delete(p)
  <2>1. CASE Done(p, "failed") /\ UNCHANGED files
    BY <1>2, <2>1 DEF Delete, Done, TypeOK, Owned, RemoveIsComplete, NoFiles, files, locals
  <2>2. CASE DeleteOne /\ UNCHANGED <<directory, pc>>
    <3>1. directory
      BY <2>2 DEF Owned, NoFiles, DeleteOne
    <3> QED
      BY <1>2, <2>2, <3>1 DEF Delete, Owned, RemoveIsComplete, locals
  <2>3. CASE NoFiles /\ directory' = FALSE /\ Done(p, "ok")
             /\ UNCHANGED <<caKey, caCert, metadata, siteKey, siteCert, counts>>
    <3>1. store' = {} /\ NoFiles' /\ ~directory' /\ pc'[p] = "idle"
      BY <1>2, <2>3 DEF Delete, Recorded, NoFiles, Done, TypeOK
    <3> QED
      BY <3>1 DEF Owned, RemoveIsComplete
  <2> QED
    BY <1>2, <2>1, <2>2, <2>3 DEF Delete
<1>3. CASE Prune(p)
  <2>1. call'[p] # "remove" /\ pc'[p] \in {"idle", "prune"}
    BY <1>3 DEF Prune, Owned, Done, TypeOK, locals
  <2>2. ~directory' => NoFiles'
    BY <1>3 DEF Prune, Owned, NoFiles, TypeOK
  <2> QED
    BY <2>1, <2>2 DEF Owned, RemoveIsComplete
<1> QED
  BY <1>1, <1>2, <1>3

LEMMA OwnedCall ==
  ASSUME TypeOK, Recorded, Owned, NEW p \in Processes, \A q \in Processes : q = p,
         Provision(p) \/ EnsureSite(p) \/ Remove(p) \/ PruneSites(p) \/ Crash(p)
  PROVE  Owned'
<1>1. UNCHANGED <<files, store>>
  BY DEF Provision, EnsureSite, Remove, PruneSites, Crash
<1>2. (~directory => NoFiles)'
  BY <1>1 DEF Owned, NoFiles, files
<1>3. CASE Provision(p) \/ EnsureSite(p) \/ PruneSites(p)
  <2>1. pc'[p] # "idle" /\ call'[p] # "remove"
    BY <1>3 DEF Provision, EnsureSite, PruneSites, Go, TypeOK
  <2> QED
    BY <1>2, <2>1 DEF Owned, RemoveIsComplete
<1>4. CASE Crash(p)
  <2>1. pc'[p] = "idle" /\ answer'[p] = "none"
    BY <1>4 DEF Crash, Done, TypeOK
  <2> QED
    BY <1>2, <2>1 DEF Owned, RemoveIsComplete
<1>5. CASE Remove(p) /\ directory
  <2>1. pc'[p] = "forget"
    BY <1>5 DEF Remove, Go, TypeOK
  <2> QED
    BY <1>2, <2>1 DEF Owned, RemoveIsComplete
<1>6. CASE Remove(p) /\ ~directory
  <2>1. pc'[p] = "idle"
    BY <1>6 DEF Remove, Done, TypeOK
  <2>2. store = {}
    BY <1>6 DEF Recorded, TypeOK, Cas, None
  <2>3. store' = {} /\ NoFiles' /\ ~directory'
    BY <1>1, <1>2, <1>6, <2>2 DEF files
  <2> QED
    BY <2>1, <2>3 DEF Owned, RemoveIsComplete
<1> QED
  BY <1>3, <1>4, <1>5, <1>6

LEMMA OwnedNext ==
  ASSUME \A p, q \in Processes : p = q
  PROVE  TypeOK /\ Recorded /\ Owned /\ [Next]_vars => Owned'
<1> SUFFICES ASSUME TypeOK, Recorded, Owned, [Next]_vars PROVE Owned'
  OBVIOUS
<1>1. CASE Expire \/ UNCHANGED vars
  BY <1>1 DEF Expire, vars, Owned, RemoveIsComplete, NoFiles, files, locals
<1> QED
  BY <1>1, OwnedCall, OwnedEnsureCa, OwnedEnsureLeaf, OwnedCleanup DEF Next

(* remove: when one process follows another, a remove that answered true has *)
(* left neither a trust entry nor a file, whatever failed or ended before it.*)
THEOREM RemoveComplete ==
  ASSUME \A p, q \in Processes : p = q
  PROVE  Spec => []RemoveIsComplete
<1>1. Init => Recorded /\ Owned
  BY DEF Init, Recorded, Owned, NoFiles, RemoveIsComplete
<1>2. TypeOK /\ Recorded /\ Owned /\ [Next]_vars => Recorded' /\ Owned'
  BY RecordedNext, OwnedNext DEF Alone
<1>3. Owned => RemoveIsComplete
  BY DEF Owned
<1> QED
  BY <1>1, <1>2, <1>3, TypeCorrect, PTL DEF Spec

(* A call that is not for a site does not answer for one: what               *)
(* SiteCertificateMatches needs to be inductive.                             *)
Matching ==
  /\ \A p \in Processes : pc[p] \in {"install", "forget", "delete", "prune"} => call[p] # "ensure"
  /\ SiteCertificateMatches

LEMMA MatchingRunning ==
  ASSUME TypeOK, Matching, NEW p \in Processes, \A q \in Processes : q = p,
         pc'[p] # "idle" \/ call'[p] # "ensure" \/ answer'[p] # "ok",
         pc'[p] \in {"install", "forget", "delete", "prune"} => call'[p] # "ensure"
  PROVE  Matching'
BY DEF Matching, SiteCertificateMatches

LEMMA MatchingEnsureCa ==
  ASSUME TypeOK, Matching, NEW p \in Processes, \A q \in Processes : q = p, EnsureCa(p)
  PROVE  Matching'
<1>1. UNCHANGED call
  BY DEF EnsureCa, CheckCa, Record, Untrust, Forget, MakeKey, MakeCert, RecordMade, Install, locals
<1>2. pc'[p] = "install" => call[p] = "provision"
  BY DEF EnsureCa, CheckCa, Record, Untrust, Forget, MakeKey, MakeCert, RecordMade, Install, Go, Done,
         AfterCa, TypeOK
<1>3. pc'[p] \notin {"forget", "delete", "prune"}
  BY DEF EnsureCa, CheckCa, Record, Untrust, Forget, MakeKey, MakeCert, RecordMade, Install, Go, Done,
         AfterCa, TypeOK
<1>4. pc'[p] # "idle" \/ call[p] # "ensure" \/ answer'[p] # "ok"
  <2>1. CASE Install(p)
    BY <2>1 DEF Matching, Install
  <2>2. CASE CheckCa(p) \/ Record(p) \/ Untrust(p) \/ MakeKey(p) \/ MakeCert(p) \/ RecordMade(p)
    BY <2>2 DEF CheckCa, Record, Untrust, Forget, MakeKey, MakeCert, RecordMade, Go, Done, AfterCa, TypeOK
  <2> QED
    BY <2>1, <2>2 DEF EnsureCa
<1> QED
  BY <1>1, <1>2, <1>3, <1>4, MatchingRunning

LEMMA MatchingEnsureLeaf ==
  ASSUME TypeOK, Matching, NEW p \in Processes, \A q \in Processes : q = p, EnsureLeaf(p)
  PROVE  Matching'
<1>1. pc'[p] \notin {"install", "forget", "delete", "prune"}
  BY DEF EnsureLeaf, Status, CheckSite, IssueKey, IssueCert, Verify, Go, Done, TypeOK
<1>2. CASE pc'[p] # "idle" \/ answer'[p] # "ok"
  BY <1>1, <1>2, MatchingRunning
<1>3. CASE pc'[p] = "idle" /\ answer'[p] = "ok"
  <2>1. SiteValid(host[p]) /\ UNCHANGED <<files, locals>>
    BY <1>3 DEF EnsureLeaf, Status, CheckSite, IssueKey, IssueCert, Verify, Go, Done, TypeOK
  <2> QED
    BY <1>1, <2>1 DEF Matching, SiteCertificateMatches, SiteValid, files, locals
<1> QED
  BY <1>2, <1>3

LEMMA MatchingCleanup ==
  ASSUME TypeOK, Matching, NEW p \in Processes, \A q \in Processes : q = p,
         ForgetEntry(p) \/ Delete(p) \/ Prune(p)
  PROVE  Matching'
<1>1. call'[p] # "ensure"
  BY DEF ForgetEntry, Forget, Delete, Prune, Go, Matching, locals
<1> QED
  BY <1>1, MatchingRunning

LEMMA MatchingCall ==
  ASSUME TypeOK, Matching, NEW p \in Processes, \A q \in Processes : q = p,
         Provision(p) \/ EnsureSite(p) \/ Remove(p) \/ PruneSites(p) \/ Crash(p)
  PROVE  Matching'
<1>1. CASE Provision(p) \/ Remove(p) \/ PruneSites(p)
  <2>1. call'[p] # "ensure"
    BY <1>1 DEF Provision, Remove, PruneSites, TypeOK
  <2> QED
    BY <2>1, MatchingRunning
<1>2. CASE EnsureSite(p)
  <2>1. pc'[p] = "status"
    BY <1>2 DEF EnsureSite, Go, TypeOK
  <2> QED
    BY <2>1, MatchingRunning
<1>3. CASE Crash(p)
  <2>1. pc'[p] = "idle" /\ answer'[p] = "none"
    BY <1>3 DEF Crash, Done, TypeOK
  <2> QED
    BY <2>1, MatchingRunning
<1> QED
  BY <1>1, <1>2, <1>3

LEMMA MatchingNext ==
  ASSUME \A p, q \in Processes : p = q
  PROVE  TypeOK /\ Matching /\ [Next]_vars => Matching'
<1> SUFFICES ASSUME TypeOK, Matching, [Next]_vars PROVE Matching'
  OBVIOUS
<1>1. CASE Expire \/ UNCHANGED vars
  BY <1>1 DEF Expire, vars, Matching, SiteCertificateMatches, files, locals
<1> QED
  BY <1>1, MatchingCall, MatchingEnsureCa, MatchingEnsureLeaf, MatchingCleanup DEF Next

(* ensure_site_certificate: when one process follows another, the            *)
(* certificate a call has answered for was issued by the CA on disk for the  *)
(* key on disk, whatever was left behind by the calls before.                *)
THEOREM SiteCertificateCorrect ==
  ASSUME \A p, q \in Processes : p = q
  PROVE  Spec => []SiteCertificateMatches
<1>1. Init => Matching
  BY DEF Init, Matching, SiteCertificateMatches
<1>2. TypeOK /\ Matching /\ [Next]_vars => Matching'
  BY MatchingNext
<1>3. Matching => SiteCertificateMatches
  BY DEF Matching
<1> QED
  BY <1>1, <1>2, <1>3, TypeCorrect, PTL DEF Spec
=============================================================================
