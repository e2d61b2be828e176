--------------------------- MODULE AdmissionProofs ---------------------------
(***************************************************************************)
(* Proofs about Admission, for every finite set of sockets, every limit    *)
(* and any number of key revisions: the limiter's counts stay exact with   *)
(* authentication in between, and keys are shown before they are used.     *)
(***************************************************************************)
EXTENDS Admission, LimiterProofs

\* A step of admission is one of the limiter, or leaves its state alone.
LEMMA AdmissionStep == [AdmissionNext]_admissionVars => [Next]_vars
  <1> SUFFICES ASSUME [AdmissionNext]_admissionVars, vars' # vars
               PROVE  Next
    OBVIOUS
  <1>1. PICK h \in Sockets :
            Acquire(h) \/ ReadKey(h) \/ LetIn(h) \/ TurnAway(h) \/ Leave(h)
    BY DEF AdmissionNext, admissionVars, vars, Rotate, NatsLost, LoadFile, LoadKv,
           WatchForFile, WatchForKv, WatchEntry, WritePem, WatchEnds
  <1> QED
    BY <1>1 DEF Acquire, ReadKey, LetIn, TurnAway, Leave, Next, vars

\* So the limiter's theorems hold of admission.
LEMMA AdmissionIsLimiter == AdmissionSpec => Spec
  <1>1. AdmissionInit => Init
    BY DEF AdmissionInit
  <1> QED
    BY <1>1, AdmissionStep, PTL DEF AdmissionSpec, Spec

\* The counts are exact and the limit is kept with authentication in between.
THEOREM AdmissionCounts == AdmissionSpec => [](LimiterInv /\ WithinLimit)
  BY AdmissionIsLimiter, LimiterInvariance, LimitKept, PTL

-----------------------------------------------------------------------------
(* Keys *)

\* AdmissionInv without the limiter's part.
KeyInv ==
    /\ AdmissionTypeOK /\ pc \in [Sockets -> PC]
    /\ key \in good \cup {NoKey, FileKey}
    /\ boot = "start" => key = NoKey
    /\ boot = "watch" => HasVerifier
    /\ boot # "open" => watch = "off" /\ \A h \in Sockets : pc[h] = "upgraded"
    /\ watch # "off" => key <= delivered /\ HasVerifier
    /\ pem <= key
    /\ \A h \in Sockets : pc[h] # "authenticating" => vkey[h] = NoKey
    /\ PemCoversKey

\* The KV store and the end of the watch touch neither keys nor sockets.
LEMMA StoreInv ==
    ASSUME KeyInv, (\E valid \in BOOLEAN : Rotate(valid)) \/ NatsLost \/ WatchEnds
    PROVE  KeyInv'
  <1> USE DEF KeyInv, AdmissionTypeOK, PemCoversKey, CurrentPem, Keys, Revisions, HasVerifier,
              NoKey, FileKey, keyVars, kvVars, vars
  <1>1. ASSUME NEW valid \in BOOLEAN, Rotate(valid) PROVE KeyInv'
    <2>1. Revisions \subseteq Revisions' /\ good' \subseteq Revisions' /\ good \subseteq good'
      BY <1>1 DEF Rotate
    <2> QED
      BY <1>1, <2>1 DEF Rotate
  <1>2. CASE NatsLost
    BY <1>2 DEF NatsLost
  <1>3. CASE WatchEnds
    BY <1>3 DEF WatchEnds
  <1> QED
    BY <1>1, <1>2, <1>3

\* init_jwt_verifier runs before any socket is accepted.
LEMMA BootInv ==
    ASSUME KeyInv, LoadFile \/ LoadKv \/ WatchForFile \/ WatchForKv
    PROVE  KeyInv'
  <1> USE DEF KeyInv, AdmissionTypeOK, PemCoversKey, CurrentPem, Keys, Revisions, HasVerifier,
              NoKey, FileKey, kvVars, vars
  <1>1. boot # "open" => \A h \in Sockets : vkey[h] = NoKey
    OBVIOUS
  <1>2. CASE LoadFile
    BY <1>1, <1>2 DEF LoadFile, FromRsaPem
  <1>3. CASE LoadKv
    BY <1>1, <1>3 DEF LoadKv, FromRsaPem, NoVerifier
  <1>4. CASE WatchForFile
    BY <1>1, <1>4 DEF WatchForFile, SetUpWatch
  <1>5. CASE WatchForKv
    BY <1>1, <1>5 DEF WatchForKv, SetUpWatch, NoVerifier
  <1> QED
    BY <1>2, <1>3, <1>4, <1>5

\* update_key moves the key forward, then shows it.
LEMMA UpdateInv ==
    ASSUME KeyInv, (\E r \in Revisions : WatchEntry(r)) \/ WritePem
    PROVE  KeyInv'
  <1> USE DEF KeyInv, AdmissionTypeOK, PemCoversKey, CurrentPem, Keys, Revisions, HasVerifier,
              NoKey, FileKey, kvVars, vars
  <1>1. ASSUME NEW r \in Revisions, WatchEntry(r) PROVE KeyInv'
    BY <1>1 DEF WatchEntry, UpdateKey
  <1>2. CASE WritePem
    BY <1>2 DEF WritePem
  <1> QED
    BY <1>1, <1>2

\* A socket reads the key only while it is the one shown.
LEMMA SocketInv ==
    ASSUME KeyInv, NEW h \in Sockets,
           Acquire(h) \/ ReadKey(h) \/ LetIn(h) \/ TurnAway(h) \/ Leave(h)
    PROVE  KeyInv'
  <1> USE DEF KeyInv, AdmissionTypeOK, PemCoversKey, CurrentPem, Keys, Revisions, HasVerifier,
              NoKey, FileKey, Admitting, kvVars, keyVars, vars, Goto, PC
  <1>1. CASE Acquire(h)
    BY <1>1 DEF Acquire, TryAcquire
  <1>2. CASE ReadKey(h)
    BY <1>2 DEF ReadKey
  <1>3. CASE LetIn(h)
    BY <1>3 DEF LetIn, Authenticated
  <1>4. CASE TurnAway(h)
    BY <1>4 DEF TurnAway, AuthFailed
  <1>5. CASE Leave(h)
    BY <1>5 DEF Leave, SocketEnds, ReleaseSlot, RemoveIfZero
  <1> QED
    BY <1>1, <1>2, <1>3, <1>4, <1>5

\* The invariant of admission holds in every reachable state: the limiter's
\* part by its own theorem, the keys' part by induction.
THEOREM AdmissionInvariance == AdmissionSpec => []AdmissionInv
  <1>1. AdmissionInit => KeyInv
    BY DEF AdmissionInit, Init, KeyInv, AdmissionTypeOK, PemCoversKey, CurrentPem, Keys, Revisions,
           HasVerifier, NoKey, FileKey, PC
  <1>2. KeyInv /\ [AdmissionNext]_admissionVars => KeyInv'
    <2> SUFFICES ASSUME KeyInv, [AdmissionNext]_admissionVars PROVE KeyInv'
      OBVIOUS
    <2>1. CASE UNCHANGED admissionVars
      BY <2>1 DEF KeyInv, AdmissionTypeOK, PemCoversKey, CurrentPem, Keys, Revisions, HasVerifier,
                  admissionVars, kvVars, keyVars, vars
    <2> QED
      BY <2>1, StoreInv, BootInv, UpdateInv, SocketInv DEF AdmissionNext
  <1>3. AdmissionSpec => []KeyInv
    BY <1>1, <1>2, PTL DEF AdmissionSpec
  <1>4. LimiterInv /\ KeyInv => AdmissionInv
    BY DEF KeyInv, AdmissionInv
  <1> QED
    BY <1>3, <1>4, AdmissionCounts, PTL

\* No token is checked with a key that /pubkey has not shown yet.
THEOREM ShownBeforeUsed == AdmissionSpec => []PemCoversKey
  <1>1. AdmissionInv => PemCoversKey
    BY DEF AdmissionInv
  <1> QED
    BY <1>1, AdmissionInvariance, PTL
=============================================================================
