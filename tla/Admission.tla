----------------------------- MODULE Admission ------------------------------
(***************************************************************************)
(* How a socket is let in: the limiter's slot (Limiter), then the token,   *)
(* checked with the key that init_jwt_verifier loads at start and that the *)
(* NATS KV watcher replaces while sockets are being verified.  update_key  *)
(* writes the key and then its PEM form, under two locks; verify takes the *)
(* first and /pubkey the second.                                           *)
(*                                                                         *)
(* A key is named by the KV revision that holds it.  The KV store is       *)
(* external: get returns the latest revision, watch delivers revisions     *)
(* written after it was set up, in order, and may skip overwritten ones.   *)
(***************************************************************************)
EXTENDS Limiter

CONSTANT MaxRev     \* bound on the revisions of rails_public_key

ASSUME MaxRevAssumption == MaxRev \in Nat

NoKey == -1
FileKey == 0

VARIABLES
    fromFile,   \* jwt_public_key_path is set
    boot,       \* how far init_jwt_verifier is
    kv,         \* latest revision of rails_public_key, 0 for none
    good,       \* the revisions that hold a valid PEM
    natsUp,     \* NATS has not gone away for good
    key, pem,   \* the two fields of JwtVerifier, NoKey without a verifier
    watch,      \* watch_loop: off, waiting, applying (holds the key's lock), ended
    since,      \* latest revision when watch was set up
    delivered,  \* latest revision the watcher has seen
    vkey        \* the key verify has read for a socket

kvVars == <<kv, good, natsUp>>
keyVars == <<boot, key, pem, watch, since, delivered>>
admissionVars == <<vars, fromFile, kvVars, keyVars, vkey>>

Revisions == 1 .. kv
Keys == {NoKey, FileKey} \cup Revisions

AdmissionTypeOK ==
    /\ fromFile \in BOOLEAN /\ natsUp \in BOOLEAN
    /\ boot \in {"start", "watch", "open", "exited"}
    /\ kv \in Nat /\ good \subseteq Revisions
    /\ key \in Keys /\ pem \in Keys
    /\ watch \in {"off", "waiting", "applying", "ended"}
    /\ since \in 0 .. kv /\ delivered \in 0 .. kv
    /\ vkey \in [Sockets -> Keys]

AdmissionInit ==
    /\ Init
    /\ fromFile \in BOOLEAN /\ boot = "start"
    /\ kv = 0 /\ good = {} /\ natsUp = TRUE
    /\ key = NoKey /\ pem = NoKey
    /\ watch = "off" /\ since = 0 /\ delivered = 0
    /\ vkey = [h \in Sockets |-> NoKey]

\* state.jwt_verifier is Some.
HasVerifier == key # NoKey

-----------------------------------------------------------------------------
(* NATS KV *)

\* Rails writes another key, or something that is none.
Rotate(valid) ==
    /\ natsUp /\ kv < MaxRev
    /\ kv' = kv + 1
    /\ good' = IF valid THEN good \cup {kv + 1} ELSE good
    /\ UNCHANGED <<vars, fromFile, natsUp, keyVars, vkey>>

NatsLost ==
    /\ natsUp /\ natsUp' = FALSE
    /\ UNCHANGED <<vars, fromFile, kv, good, keyVars, vkey>>

-----------------------------------------------------------------------------
(* init_jwt_verifier *)

FromRsaPem(k) == key' = k /\ pem' = k

\* JWT auth is disabled.
NoVerifier == key' = NoKey /\ pem' = NoKey

\* The key file; if it cannot be used the process exits.
LoadFile ==
    /\ boot = "start" /\ fromFile
    /\ \/ boot' = "watch" /\ FromRsaPem(FileKey)
       \/ boot' = "exited" /\ UNCHANGED <<key, pem>>
    /\ UNCHANGED <<vars, fromFile, kvVars, watch, since, delivered, vkey>>

\* load_and_watch_from_nats, as far as get.  On any error there is no verifier.
LoadKv ==
    /\ boot = "start" /\ ~fromFile
    /\ \/ natsUp /\ kv \in good /\ boot' = "watch" /\ FromRsaPem(kv)
       \/ boot' = "open" /\ NoVerifier
    /\ UNCHANGED <<vars, fromFile, kvVars, watch, since, delivered, vkey>>

\* watch succeeds, and the loop is spawned.
SetUpWatch ==
    /\ natsUp /\ watch' = "waiting"
    /\ since' = kv /\ delivered' = kv
    /\ UNCHANGED <<key, pem>>

\* start_nats_key_watcher: without it the key of the file stays.
WatchForFile ==
    /\ boot = "watch" /\ fromFile /\ boot' = "open"
    /\ \/ SetUpWatch
       \/ UNCHANGED <<key, pem, watch, since, delivered>>
    /\ UNCHANGED <<vars, fromFile, kvVars, vkey>>

\* The rest of load_and_watch_from_nats: without a watch the key is dropped.
WatchForKv ==
    /\ boot = "watch" /\ ~fromFile /\ boot' = "open"
    /\ \/ SetUpWatch
       \/ NoVerifier /\ UNCHANGED <<watch, since, delivered>>
    /\ UNCHANGED <<vars, fromFile, kvVars, vkey>>

-----------------------------------------------------------------------------
(* watch_loop *)

WatchEntryOrGiveUp(r) ==
    /\ watch = "waiting" /\ r > delivered
    /\ delivered' = r
    /\ \/ r \in good /\ key' = r /\ watch' = "applying"
       \/ r \notin good /\ watch' = "ended" /\ UNCHANGED key
    /\ UNCHANGED <<vars, fromFile, kvVars, boot, pem, since, vkey>>

\* update_key parses the entry; if it is a key, it takes the lock and writes it.
UpdateKey(r) ==
    \/ r \in good /\ key' = r /\ watch' = "applying"
    \/ r \notin good /\ UNCHANGED <<key, watch>>

WatchEntry(r) ==
    /\ watch = "waiting" /\ r > delivered
    /\ delivered' = r
    /\ UpdateKey(r)
    /\ UNCHANGED <<vars, fromFile, kvVars, boot, pem, since, vkey>>

\* The PEM is written before the key's guard is dropped.
WritePem ==
    /\ watch = "applying" /\ watch' = "waiting"
    /\ pem' = key
    /\ UNCHANGED <<vars, fromFile, kvVars, boot, key, since, delivered, vkey>>

WatchEnds ==
    /\ watch = "waiting" /\ ~natsUp /\ watch' = "ended"
    /\ UNCHANGED <<vars, fromFile, kvVars, boot, key, pem, since, delivered, vkey>>

\* What /pubkey answers.
CurrentPem == pem

-----------------------------------------------------------------------------
(* handle_socket *)

Admitting == boot = "open" /\ UNCHANGED <<fromFile, kvVars, keyVars>>

Acquire(h) == Admitting /\ TryAcquire(h) /\ UNCHANGED vkey

ReadKeyUnlocked(h) ==
    /\ Admitting /\ pc[h] = "authenticating" /\ vkey[h] = NoKey
    /\ HasVerifier
    /\ vkey' = [vkey EXCEPT ![h] = key]
    /\ UNCHANGED vars

\* There is a token; verify clones the key under its read lock.
ReadKey(h) ==
    /\ Admitting /\ pc[h] = "authenticating" /\ vkey[h] = NoKey
    /\ HasVerifier /\ watch # "applying"
    /\ vkey' = [vkey EXCEPT ![h] = key]
    /\ UNCHANGED vars

\* The token is valid under the key that was read, or there is no verifier.
LetIn(h) ==
    /\ Admitting /\ (HasVerifier => vkey[h] # NoKey)
    /\ Authenticated(h)
    /\ vkey' = [vkey EXCEPT ![h] = NoKey]

\* No token, or one that is not valid under that key.
TurnAway(h) ==
    /\ Admitting /\ HasVerifier
    /\ AuthFailed(h)
    /\ vkey' = [vkey EXCEPT ![h] = NoKey]

Leave(h) ==
    /\ Admitting /\ UNCHANGED vkey
    /\ SocketEnds(h) \/ ReleaseSlot(h) \/ RemoveIfZero(h)

AdmissionNext ==
    \/ \E valid \in BOOLEAN : Rotate(valid)
    \/ NatsLost
    \/ LoadFile \/ LoadKv \/ WatchForFile \/ WatchForKv
    \/ \E r \in Revisions : WatchEntry(r)
    \/ WritePem \/ WatchEnds
    \/ \E h \in Sockets :
         Acquire(h) \/ ReadKey(h) \/ LetIn(h) \/ TurnAway(h) \/ Leave(h)

AdmissionSpec == AdmissionInit /\ [][AdmissionNext]_admissionVars

\* The watcher task keeps running; nothing is assumed of clients.
AdmissionFairSpec ==
    /\ AdmissionSpec
    /\ WF_admissionVars(\E r \in Revisions : WatchEntry(r))
    /\ WF_admissionVars(WritePem)

-----------------------------------------------------------------------------
(* Properties *)

\* No token is checked with a key that /pubkey has not shown yet: the lock on
\* the key covers the write of its PEM form (update_key, current_pem).
PemCoversKey ==
    /\ \A h \in Sockets : vkey[h] <= CurrentPem
    /\ key # CurrentPem => watch = "applying"

\* A valid key written while the watcher runs comes into force, whatever
\* entries that are no keys came before it, unless a later entry replaces it or
\* NATS goes away.
KeyReloaded ==
    \A r \in 1 .. MaxRev :
        boot = "open" /\ watch # "off" /\ kv = r /\ r \in good /\ r > since
            ~> (key = r /\ pem = r) \/ kv # r \/ ~natsUp

\* The inductive invariant: keys only move forward, and only to valid ones.
AdmissionInv ==
    /\ LimiterInv /\ AdmissionTypeOK
    /\ key \in good \cup {NoKey, FileKey}
    /\ boot = "start" => key = NoKey
    /\ boot = "watch" => HasVerifier
    /\ boot # "open" => watch = "off" /\ \A h \in Sockets : pc[h] = "upgraded"
    /\ watch # "off" => key <= delivered /\ HasVerifier
    /\ pem <= key
    /\ \A h \in Sockets : pc[h] # "authenticating" => vkey[h] = NoKey
    /\ PemCoversKey
=============================================================================
