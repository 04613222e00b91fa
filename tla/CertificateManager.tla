-------------------------- MODULE CertificateManager --------------------------
(***************************************************************************)
(* The root CA, its trust entry and the site certificates:                 *)
(* engine/tls/certificate_manager.cpp, as the Engine (configure_nginx),    *)
(* setup and TLS repair (--provision-tls) and uninstall (--remove-tls) call*)
(* it.  Each of these is a process of its own; mutex_ keeps the calls of   *)
(* one process apart, nothing keeps the processes apart.                   *)
(*                                                                         *)
(* A CA is the number of the key pair it was made with, a site's           *)
(* certificate names the CA that issued it and the key it is for.  Files   *)
(* are replaced atomically (atomic_write), one at a time; a process may    *)
(* end between any two.                                                    *)
(***************************************************************************)
EXTENDS Naturals, FiniteSets

CONSTANTS
  Processes,   \* the Engine, setup, uninstall
  Hosts,       \* site hostnames
  MaxCas,      \* bound: root CAs created
  MaxKeys,     \* bound: site keys created
  MaxExpiries, \* bound: root CAs that expire
  MaxFailures  \* bound: file and store operations that fail

ASSUME BoundsAssumption ==
  /\ MaxCas \in Nat \ {0} /\ MaxKeys \in Nat \ {0}
  /\ MaxExpiries \in Nat /\ MaxFailures \in Nat

None == 0
Cas  == 1..MaxCas
Keys == 1..MaxKeys
NoCert == [ca |-> None, key |-> None]

VARIABLES
  caKey, caCert, metadata,  \* the CA whose key, certificate, fingerprints the file holds
  siteKey, siteCert,        \* the files of each host under sites/
  directory,                \* the certificates directory exists
  store,                    \* the CAs of ours in LocalMachine\Root
  expired,                  \* the CAs past their notAfter
  pc,                       \* the next step of each process
  call,                     \* what it was called for
  seen,                     \* a certificate it has loaded or a CA it is making
  made,                     \* the site key it is making
  host,                     \* the host it is issuing for
  answer,                   \* what its last call returned
  cas, keys, failures

files  == <<caKey, caCert, metadata, siteKey, siteCert, directory>>
locals == <<call, seen, made, host>>
counts == <<cas, keys, failures>>
vars   == <<files, store, expired, pc, locals, answer, counts>>

TypeOK ==
  /\ caKey \in Cas \union {None} /\ caCert \in Cas \union {None} /\ metadata \in Cas \union {None}
  /\ siteKey \in [Hosts -> Keys \union {None}]
  /\ siteCert \in [Hosts -> [ca : Cas \union {None}, key : Keys \union {None}]]
  /\ directory \in BOOLEAN
  /\ (~directory => caKey = None /\ caCert = None /\ metadata = None)
  /\ store \subseteq Cas /\ expired \subseteq Cas
  /\ pc \in [Processes -> {"idle", "status", "check", "untrust", "makeKey", "makeCert", "record",
                           "recordMade", "install", "checkSite", "issueKey", "issueCert", "verify",
                           "forget", "delete", "prune"}]
  /\ call \in [Processes -> {"none", "provision", "ensure", "remove", "prune"}]
  /\ seen \in [Processes -> Cas \union {None}] /\ made \in [Processes -> Keys \union {None}]
  /\ host \in [Processes -> Hosts]
  /\ answer \in [Processes -> {"none", "ok", "failed"}]
  /\ cas \in 0..MaxCas /\ keys \in 0..MaxKeys /\ failures \in 0..MaxFailures

Init ==
  /\ caKey = None /\ caCert = None /\ metadata = None /\ directory = FALSE
  /\ siteKey = [h \in Hosts |-> None] /\ siteCert = [h \in Hosts |-> NoCert]
  /\ store = {} /\ expired = {}
  /\ pc = [p \in Processes |-> "idle"] /\ call = [p \in Processes |-> "none"]
  /\ seen = [p \in Processes |-> None] /\ made = [p \in Processes |-> None]
  /\ host \in [Processes -> Hosts]
  /\ answer = [p \in Processes |-> "none"]
  /\ cas = 0 /\ keys = 0 /\ failures = 0

-----------------------------------------------------------------------------

Go(p, from, to) == pc[p] = from /\ pc' = [pc EXCEPT ![p] = to]

(* A call returns.                                                           *)
Done(p, result) ==
  /\ pc' = [pc EXCEPT ![p] = "idle"]
  /\ answer' = [answer EXCEPT ![p] = result]

Fails == failures < MaxFailures /\ failures' = failures + 1 /\ UNCHANGED <<cas, keys>>

(* is_ca_valid for the two files as they are.                                *)
CaValid == caCert # None /\ caCert = caKey /\ caCert \notin expired

Trusted == caCert # None /\ caCert \in store

(* site_certificate_valid; the renewal period is left out.                   *)
SiteValid(h) ==
  /\ caCert # None /\ siteKey[h] # None
  /\ siteCert[h] = [ca |-> caCert, key |-> siteKey[h]]

-----------------------------------------------------------------------------
(* The calls.  The Engine issues certificates only when status() is ready.   *)

Provision(p) ==
  /\ Go(p, "idle", "check") /\ call' = [call EXCEPT ![p] = "provision"]
  /\ UNCHANGED <<files, store, expired, seen, made, host, answer, counts>>

EnsureSite(p) ==
  /\ Go(p, "idle", "status") /\ call' = [call EXCEPT ![p] = "ensure"]
  /\ \E h \in Hosts : host' = [host EXCEPT ![p] = h]
  /\ UNCHANGED <<files, store, expired, seen, made, answer, counts>>

Status(p) ==
  /\ pc[p] = "status"
  /\ IF CaValid /\ Trusted
     THEN Go(p, "status", "check") /\ UNCHANGED answer
     ELSE Done(p, "failed")
  /\ UNCHANGED <<files, store, expired, locals, counts>>

(* remove(): without a directory there is nothing to do.                     *)
Remove(p) ==
  /\ pc[p] = "idle" /\ call' = [call EXCEPT ![p] = "remove"]
  /\ IF directory THEN Go(p, "idle", "forget") /\ UNCHANGED answer ELSE Done(p, "ok")
  /\ UNCHANGED <<files, store, expired, seen, made, host, counts>>

PruneSites(p) ==
  /\ Go(p, "idle", "prune") /\ call' = [call EXCEPT ![p] = "prune"]
  /\ \E h \in Hosts : host' = [host EXCEPT ![p] = h]
  /\ UNCHANGED <<files, store, expired, seen, made, answer, counts>>

-----------------------------------------------------------------------------
(* ensure_ca_files.                                                          *)

AfterCa(p) == IF call[p] = "provision" THEN "install" ELSE "checkSite"

CheckCaKeepingTheEntry(p) ==
  /\ Go(p, "check", IF ~CaValid THEN "makeKey" ELSE IF metadata = caCert THEN AfterCa(p) ELSE "record")
  /\ seen' = [seen EXCEPT ![p] = IF CaValid THEN caCert ELSE None]
  /\ UNCHANGED <<files, store, expired, call, made, host, answer, counts>>

CheckCa(p) ==
  /\ Go(p, "check", CASE CaValid /\ metadata = caCert -> AfterCa(p)
                      [] CaValid /\ metadata # caCert -> "record"
                      [] ~CaValid /\ metadata # None  -> "untrust"
                      [] ~CaValid /\ metadata = None  -> "makeKey")
  /\ seen' = [seen EXCEPT ![p] = IF CaValid THEN caCert ELSE None]
  /\ UNCHANGED <<files, store, expired, call, made, host, answer, counts>>

(* save_metadata of the valid certificate that was loaded.                   *)
Record(p) ==
  /\ \/ metadata' = seen[p] /\ directory' = TRUE /\ Go(p, "record", AfterCa(p))
        /\ UNCHANGED <<answer, counts>>
     \/ pc[p] = "record" /\ Done(p, "failed") /\ Fails /\ UNCHANGED <<metadata, directory>>
  /\ UNCHANGED <<caKey, caCert, siteKey, siteCert, store, expired, locals>>

(* remove_recorded_trust_entry.  Another process may have deleted the        *)
(* metadata meanwhile.                                                       *)
Forget(p, from, to) ==
  /\ pc[p] = from
  /\ \/ (metadata # None \/ ~directory) /\ store' = store \ {metadata}
        /\ Go(p, from, to) /\ UNCHANGED <<answer, counts>>
     \/ metadata = None /\ directory /\ Done(p, "failed") /\ UNCHANGED <<store, counts>>
     \/ metadata # None /\ Done(p, "failed") /\ Fails /\ UNCHANGED store
  /\ UNCHANGED <<files, expired, locals>>

Untrust(p) == Forget(p, "untrust", "makeKey")

(* create_directories, which may be all that succeeds, and create_root: the  *)
(* key file first, then the certificate.                                     *)
MakeKeyWithoutDirectory(p) ==
  /\ Go(p, "makeKey", "makeCert") /\ cas < MaxCas /\ cas' = cas + 1
  /\ seen' = [seen EXCEPT ![p] = cas'] /\ caKey' = cas'
  /\ UNCHANGED <<caCert, metadata, siteKey, siteCert, directory, store, expired, call, made, host,
                 answer, keys, failures>>

MakeKey(p) ==
  /\ \/ /\ cas < MaxCas /\ cas' = cas + 1
        /\ seen' = [seen EXCEPT ![p] = cas'] /\ caKey' = cas' /\ directory' = TRUE
        /\ Go(p, "makeKey", "makeCert") /\ UNCHANGED <<answer, keys, failures>>
     \/ pc[p] = "makeKey" /\ Done(p, "failed") /\ Fails /\ UNCHANGED <<seen, caKey>>
        /\ directory' \in {directory, TRUE}
  /\ UNCHANGED <<caCert, metadata, siteKey, siteCert, store, expired, call, made, host>>

MakeCert(p) ==
  /\ \/ caCert' = seen[p] /\ directory' = TRUE
        /\ Go(p, "makeCert", "recordMade") /\ UNCHANGED <<answer, counts>>
     \/ pc[p] = "makeCert" /\ Done(p, "failed") /\ Fails /\ UNCHANGED <<caCert, directory>>
  /\ UNCHANGED <<caKey, metadata, siteKey, siteCert, store, expired, locals>>

(* save_metadata of the certificate the file holds by now.                   *)
RecordMade(p) ==
  /\ \/ caCert # None /\ metadata' = caCert /\ Go(p, "recordMade", AfterCa(p))
        /\ UNCHANGED <<answer, counts>>
     \/ pc[p] = "recordMade" /\ caCert = None /\ Done(p, "failed") /\ UNCHANGED <<metadata, counts>>
     \/ pc[p] = "recordMade" /\ Done(p, "failed") /\ Fails /\ UNCHANGED metadata
  /\ UNCHANGED <<caKey, caCert, siteKey, siteCert, directory, store, expired, locals>>

(* install_trust_entry, with the certificate the file holds by now.          *)
Install(p) ==
  /\ pc[p] = "install"
  /\ \/ caCert # None /\ store' = store \union {caCert} /\ Done(p, "ok") /\ UNCHANGED counts
     \/ caCert = None /\ Done(p, "failed") /\ UNCHANGED <<store, counts>>
     \/ Done(p, "failed") /\ Fails /\ UNCHANGED store
  /\ UNCHANGED <<files, expired, locals>>

EnsureCa(p) ==
  CheckCa(p) \/ Record(p) \/ Untrust(p) \/ MakeKey(p) \/ MakeCert(p) \/ RecordMade(p) \/ Install(p)

-----------------------------------------------------------------------------
(* ensure_site_certificate, create_leaf.                                     *)

CheckSiteByPresence(p) ==
  /\ pc[p] = "checkSite"
  /\ IF siteKey[host[p]] # None /\ siteCert[host[p]] # NoCert
     THEN Done(p, "ok") ELSE Go(p, "checkSite", "issueKey") /\ UNCHANGED answer
  /\ UNCHANGED <<files, store, expired, locals, counts>>

CheckSite(p) ==
  /\ pc[p] = "checkSite"
  /\ IF SiteValid(host[p]) THEN Done(p, "ok") ELSE Go(p, "checkSite", "issueKey") /\ UNCHANGED answer
  /\ UNCHANGED <<files, store, expired, locals, counts>>

IssueKey(p) ==
  /\ \/ /\ CaValid /\ keys < MaxKeys /\ keys' = keys + 1
        /\ siteKey' = [siteKey EXCEPT ![host[p]] = keys'] /\ directory' = TRUE
        /\ seen' = [seen EXCEPT ![p] = caCert] /\ made' = [made EXCEPT ![p] = keys']
        /\ Go(p, "issueKey", "issueCert") /\ UNCHANGED <<answer, cas, failures>>
     \/ pc[p] = "issueKey" /\ ~CaValid /\ Done(p, "failed")
        /\ UNCHANGED <<siteKey, directory, seen, made, counts>>
     \/ pc[p] = "issueKey" /\ Done(p, "failed") /\ Fails /\ UNCHANGED <<siteKey, directory, seen, made>>
  /\ UNCHANGED <<caKey, caCert, metadata, siteCert, store, expired, call, host>>

IssueCert(p) ==
  /\ \/ siteCert' = [siteCert EXCEPT ![host[p]] = [ca |-> seen[p], key |-> made[p]]] /\ directory' = TRUE
        /\ Go(p, "issueCert", "verify") /\ UNCHANGED <<answer, counts>>
     \/ pc[p] = "issueCert" /\ Done(p, "failed") /\ Fails /\ UNCHANGED <<siteCert, directory>>
  /\ UNCHANGED <<caKey, caCert, metadata, siteKey, store, expired, locals>>

Verify(p) ==
  /\ pc[p] = "verify" /\ Done(p, IF SiteValid(host[p]) THEN "ok" ELSE "failed")
  /\ UNCHANGED <<files, store, expired, locals, counts>>

EnsureLeaf(p) == Status(p) \/ CheckSite(p) \/ IssueKey(p) \/ IssueCert(p) \/ Verify(p)

-----------------------------------------------------------------------------
(* remove and remove_unused_site_certificates.                               *)

ForgetNothing(p) ==
  /\ Go(p, "forget", "delete")
  /\ UNCHANGED <<files, store, expired, locals, answer, counts>>

ForgetEntry(p) == Forget(p, "forget", "delete")

(* remove_all goes through the files in whatever order the directory has     *)
(* them, and stops where it fails.                                           *)
DeleteOne ==
  \/ caKey # None /\ caKey' = None /\ UNCHANGED <<caCert, metadata, siteKey, siteCert>>
  \/ caCert # None /\ caCert' = None /\ UNCHANGED <<caKey, metadata, siteKey, siteCert>>
  \/ metadata # None /\ metadata' = None /\ UNCHANGED <<caKey, caCert, siteKey, siteCert>>
  \/ \E h \in Hosts :
       /\ UNCHANGED <<caKey, caCert, metadata>>
       /\ \/ siteKey[h] # None /\ siteKey' = [siteKey EXCEPT ![h] = None] /\ UNCHANGED siteCert
          \/ siteCert[h] # NoCert /\ siteCert' = [siteCert EXCEPT ![h] = NoCert] /\ UNCHANGED siteKey

NoFiles ==
  /\ caKey = None /\ caCert = None /\ metadata = None
  /\ \A h \in Hosts : siteKey[h] = None /\ siteCert[h] = NoCert

Delete(p) ==
  /\ pc[p] = "delete"
  /\ \/ DeleteOne /\ UNCHANGED <<directory, pc, answer, counts>>
     \/ NoFiles /\ directory' = FALSE /\ Done(p, "ok")
        /\ UNCHANGED <<caKey, caCert, metadata, siteKey, siteCert, counts>>
     \/ Done(p, "failed") /\ Fails /\ UNCHANGED files
  /\ UNCHANGED <<store, expired, locals>>

(* The files of a host whose site is gone, one after the other.              *)
Prune(p) ==
  /\ pc[p] = "prune"
  /\ \/ siteKey[host[p]] # None /\ siteKey' = [siteKey EXCEPT ![host[p]] = None]
        /\ UNCHANGED <<siteCert, pc, answer, counts>>
     \/ siteCert[host[p]] # NoCert /\ siteCert' = [siteCert EXCEPT ![host[p]] = NoCert]
        /\ UNCHANGED <<siteKey, pc, answer, counts>>
     \/ siteKey[host[p]] = None /\ siteCert[host[p]] = NoCert /\ Done(p, "ok")
        /\ UNCHANGED <<siteKey, siteCert, counts>>
     \/ Done(p, "failed") /\ Fails /\ UNCHANGED <<siteKey, siteCert>>
  /\ UNCHANGED <<caKey, caCert, metadata, directory, store, expired, locals>>

-----------------------------------------------------------------------------

(* The process ends in the middle of a call.                                 *)
Crash(p) ==
  /\ pc[p] # "idle" /\ Done(p, "none")
  /\ UNCHANGED <<files, store, expired, locals, counts>>

Expire ==
  /\ caCert # None /\ caCert \notin expired /\ Cardinality(expired) < MaxExpiries
  /\ expired' = expired \union {caCert}
  /\ UNCHANGED <<files, store, pc, locals, answer, counts>>

Next ==
  \/ Expire
  \/ \E p \in Processes :
       \/ Provision(p) \/ EnsureSite(p) \/ Remove(p) \/ PruneSites(p)
       \/ EnsureCa(p) \/ EnsureLeaf(p) \/ ForgetEntry(p) \/ Delete(p) \/ Prune(p) \/ Crash(p)

Spec == Init /\ [][Next]_vars

-----------------------------------------------------------------------------
(* Properties.                                                               *)

(* ensure_ca_files 469-499, provision 525-529, remove 593-606: a CA is       *)
(* trusted only while the metadata records it, so that cleanup, which goes   *)
(* by the recorded fingerprints alone, finds every entry ever made, whatever *)
(* step failed or ended the process and however often the CA was replaced.   *)
TrustIsRecorded == store \subseteq {metadata}

(* remove 593-606: when it has returned true, the trust entry and the files  *)
(* are gone.                                                                 *)
RemoveIsComplete ==
  \A p \in Processes :
    pc[p] = "idle" /\ call[p] = "remove" /\ answer[p] = "ok" =>
      store = {} /\ NoFiles /\ ~directory

(* ensure_site_certificate 628-647: the certificate a site is served with    *)
(* was issued by the CA that is on disk and belongs to the site's key, also  *)
(* after an earlier call ended between the two files or the CA was replaced. *)
SiteCertificateMatches ==
  \A p \in Processes :
    pc[p] = "idle" /\ call[p] = "ensure" /\ answer[p] = "ok" =>
      caCert # None /\ siteCert[host[p]] = [ca |-> caCert, key |-> siteKey[host[p]]]
=============================================================================
