--------------------- MODULE CertificateRotationProofs ---------------------
(***************************************************************************)
(* Proofs about CertificateRotation, for every lifetime, step and skew and *)
(* every number of rotations: as long as a gateway is never missing for    *)
(* longer than ShortDowntime allows, the manifest on disk stays one that   *)
(* the next process accepts, the leaf that is served is valid, and clients *)
(* of the last manifest can reach the next process.                        *)
(***************************************************************************)
EXTENDS CertificateRotation, TLAPS

\* No process starts to prepare before the last one stopped serving, and none
\* takes longer than MAX_DOWNTIME over it.
ClockInv ==
  /\ clock \in Nat /\ now \in Nat /\ down_since \in Nat /\ rotate_at \in Int
  /\ now <= clock /\ down_since <= clock
  /\ phase # "down" => down_since <= now
  /\ phase # "serving" => clock <= down_since + MAX_DOWNTIME

FilesType ==
  /\ phase \in Phases
  /\ leaves \in [1..MAX_EPOCH -> {Null} \cup Nat]
  /\ generated \in Nat
  /\ control_key \in {Null} \cup Nat
  /\ phase \notin {"down", "key"} => control_key # Null

\* A manifest that every later start accepts.  Its leaves overlap by more than
\* the time for which a rotation timer may be late.
Sound(m) ==
  /\ m \in Manifest
  /\ m.signer = control_key
  /\ validate_manifest(m)
  /\ require_leaf_hash(m.current)
  /\ require_leaf_hash(m.next)
  /\ m.next.not_before + MAX_DOWNTIME < m.current.not_after

ManifestInv ==
  manifest # Null => Sound(manifest) /\ down_since <= manifest.next.not_before + MAX_DOWNTIME

\* What the process holds in its phases.
ProcessInv ==
  /\ phase \in {"first", "second"} => manifest = Null
  /\ phase = "second" =>
       /\ working \in Manifest
       /\ working.current = [epoch |-> 1, hash |-> leaves[1],
                             not_before |-> now - CLOCK_SKEW_ALLOWANCE,
                             not_after |-> now - CLOCK_SKEW_ALLOWANCE + CERTIFICATE_LIFETIME]
       /\ working.signer = control_key
  /\ phase = "rotate" =>
       /\ manifest # Null /\ working = manifest
       /\ manifest.next.not_before <= now
  /\ phase = "persist" =>
       /\ Sound(working)
       /\ working.current.not_before <= now
       /\ working.next.not_before = now + CERTIFICATE_EPOCH_STEP
  /\ phase \in {"load", "serving"} =>
       /\ manifest # Null /\ working = manifest
       /\ working.current.not_before <= now
  /\ phase = "serving" =>
       clock <= rotate_at /\ rotate_at <= working.next.not_before + MAX_DOWNTIME

\* Since a process last served, the manifest was rotated at most once: the leaf
\* that follows begins after the longest time without a gateway.
AdvertisedInv ==
  advertised # Null =>
    /\ manifest # Null
    /\ \/ manifest = advertised
       \/ /\ manifest.current = advertised.next
          /\ down_since + MAX_DOWNTIME < manifest.next.not_before
    /\ phase \in {"serving", "rotate"} => manifest = advertised
    /\ phase = "persist" => working.current = advertised.next

RotationInv == ClockInv /\ FilesType /\ ManifestInv /\ ProcessInv /\ AdvertisedInv

\* The constants as the provers need them.
LEMMA Constants ==
  /\ CERTIFICATE_LIFETIME \in Nat /\ CERTIFICATE_EPOCH_STEP \in Nat /\ CLOCK_SKEW_ALLOWANCE \in Nat
  /\ CERTIFICATE_LIFETIME > 0 /\ CERTIFICATE_EPOCH_STEP > 0
  /\ MAX_DOWNTIME \in Nat /\ MAX_EPOCH \in Nat /\ MAX_EPOCH >= 2
BY RotationConstants

\* What a sound manifest is, part by part.
LEMMA SoundTypes ==
  ASSUME NEW m, Sound(m)
  PROVE  /\ m # Null
         /\ control_key # Null
         /\ m.current \in Certificate /\ m.next \in Certificate
         /\ m.current.epoch \in 1..MAX_EPOCH /\ m.next.epoch \in 1..MAX_EPOCH
         /\ m.current.epoch + 1 = m.next.epoch
         /\ m.current.hash \in Nat /\ m.next.hash \in Nat
         /\ m.current.not_before \in Int /\ m.next.not_before \in Int
         /\ m.current.not_after = m.current.not_before + CERTIFICATE_LIFETIME
         /\ m.next.not_after = m.next.not_before + CERTIFICATE_LIFETIME
         /\ m.next.not_before + MAX_DOWNTIME < m.current.not_after
<1>1. m \in Manifest /\ m # Null
  BY NullAssumption DEF Sound
<1>2. /\ m.current \in Certificate /\ m.next \in Certificate /\ m.signer \in Nat
  BY <1>1 DEF Manifest
<1>3. \A c \in Certificate : /\ c.epoch \in 1..MAX_EPOCH /\ c.hash \in Nat
                             /\ c.not_before \in Int /\ c.not_after \in Int
  BY DEF Certificate
<1>4. m.signer = control_key /\ validate_manifest(m)
      /\ m.next.not_before + MAX_DOWNTIME < m.current.not_after
  BY DEF Sound
<1>5. m.signer # Null
  BY <1>2, NullAssumption
<1>6. QED
  BY <1>1, <1>2, <1>3, <1>4, <1>5, Constants DEF validate_manifest

\* A manifest stays sound as long as its leaf files and the key are kept.
LEMMA SoundFrame ==
  ASSUME NEW m, Sound(m), control_key' = control_key,
         leaves'[m.current.epoch] = leaves[m.current.epoch],
         leaves'[m.next.epoch] = leaves[m.next.epoch]
  PROVE  Sound(m)'
BY DEF Sound, require_leaf_hash, validate_manifest, windows_overlap

\* The invariant holds at first, and every write, crash, start and tick keeps it.
LEMMA RotationInit == Init => RotationInv
BY Constants DEF Init, RotationInv, ClockInv, FilesType, ManifestInv, ProcessInv, AdvertisedInv, Phases

\* Steps that write no file.
LEMMA FilesFrame ==
  ASSUME RotationInv, UNCHANGED files, phase' \in Phases,
         phase' \notin {"down", "key"} => control_key # Null
  PROVE  FilesType' /\ \A m : Sound(m) => Sound(m)'
<1>1. UNCHANGED <<leaves, manifest, control_key, generated>>
  BY DEF files
<1>2. QED
  BY <1>1, SoundFrame DEF RotationInv, FilesType

LEMMA RotationStart == ASSUME RotationInv, Start PROVE RotationInv'
<1>1. FilesType' /\ \A m : Sound(m) => Sound(m)'
  BY FilesFrame DEF Start, Phases
<1>2. QED
  BY <1>1, Constants
     DEF Start, files, RotationInv, ClockInv, ManifestInv, ProcessInv, AdvertisedInv

LEMMA RotationKey == ASSUME RotationInv, load_or_create_control_key PROVE RotationInv'
<1>1. /\ control_key' = IF control_key = Null THEN 1 ELSE control_key
      /\ phase = "key" /\ phase' = "manifest"
      /\ UNCHANGED <<clock, leaves, manifest, generated, now, working, advertised, down_since, rotate_at>>
  BY DEF load_or_create_control_key
<1>2. FilesType'
  BY <1>1, NullAssumption DEF RotationInv, FilesType, Phases
<1>3. manifest # Null => Sound(manifest)'
  <2> SUFFICES ASSUME manifest # Null PROVE Sound(manifest)'
    OBVIOUS
  <2>1. Sound(manifest) /\ control_key # Null
    BY SoundTypes DEF RotationInv, ManifestInv
  <2>2. QED
    BY <1>1, <2>1 DEF Sound, require_leaf_hash, validate_manifest, windows_overlap
<1>4. QED
  BY <1>1, <1>2, <1>3 DEF RotationInv, ClockInv, ManifestInv, ProcessInv, AdvertisedInv

LEMMA RotationPrepare == ASSUME ShortDowntime, RotationInv, prepare PROVE RotationInv'
<1>1. phase = "manifest" /\ working' = manifest
      /\ UNCHANGED <<clock, files, now, advertised, rotate_at, down_since>>
  BY DEF prepare
<1>2. phase' \in {"first", "rotate", "load"}
  BY DEF prepare
<1>3. FilesType' /\ \A m : Sound(m) => Sound(m)'
  BY <1>1, <1>2, FilesFrame DEF Phases, RotationInv, FilesType
<1>4. ClockInv' /\ ManifestInv'
  BY <1>1, <1>2, <1>3 DEF files, RotationInv, ClockInv, ManifestInv
<1>5. CASE manifest = Null
  <2>1. phase' = "first"
    BY <1>5 DEF prepare
  <2>2. QED
    BY <1>1, <1>3, <1>4, <1>5, <2>1 DEF files, RotationInv, ProcessInv, AdvertisedInv
<1>6. CASE manifest # Null
  <2>1. /\ ~Unusable(manifest)
        /\ phase' = IF now >= manifest.next.not_before THEN "rotate" ELSE "load"
    BY <1>6 DEF prepare
  <2>2. Sound(manifest)
    BY <1>6 DEF RotationInv, ManifestInv
  <2>3. /\ manifest.current.not_before \in Int /\ manifest.next.not_before \in Int
        /\ now \in Nat /\ now <= down_since + MAX_DOWNTIME /\ down_since \in Nat
    BY <1>1, <2>2, SoundTypes, Constants DEF RotationInv, ClockInv
  <2>4. manifest.current.not_before <= now
    BY <2>1, <2>3 DEF Unusable
  <2>5. ProcessInv'
    BY <1>1, <1>6, <2>1, <2>3, <2>4 DEF files, ProcessInv
  <2>6. phase' = "rotate" => manifest.next.not_before <= down_since + MAX_DOWNTIME
    BY <2>1, <2>3, Constants
  <2>7. ~(phase' = "rotate" /\ down_since + MAX_DOWNTIME < manifest.next.not_before)
    BY <2>3, <2>6, Constants
  <2>8. AdvertisedInv'
    BY <1>1, <1>2, <1>6, <2>7 DEF files, RotationInv, AdvertisedInv
  <2>9. QED
    BY <1>3, <1>4, <2>5, <2>8 DEF RotationInv
<1>7. QED
  BY <1>5, <1>6

\* What generate_leaf returns.
LEMMA NewLeaf ==
  ASSUME RotationInv, NEW epoch \in 1..MAX_EPOCH, NEW start \in Int
  PROVE  LET leaf == generate_leaf(epoch, start)
         IN  /\ leaf \in Certificate
             /\ leaf.epoch = epoch /\ leaf.hash = generated + 1
             /\ leaf.not_before = start /\ leaf.not_after = start + CERTIFICATE_LIFETIME
BY Constants DEF generate_leaf, Certificate, RotationInv, FilesType

LEMMA RotationFirst == ASSUME RotationInv, initialize_current PROVE RotationInv'
<1> DEFINE leaf == generate_leaf(1, now - CLOCK_SKEW_ALLOWANCE)
<1>1. /\ phase = "first" /\ phase' = "second" /\ manifest = Null
      /\ generated' = generated + 1
      /\ leaves' = [leaves EXCEPT ![leaf.epoch] = leaf.hash]
      /\ working' = [current |-> leaf, next |-> leaf, signer |-> control_key]
      /\ UNCHANGED <<clock, manifest, control_key, now, advertised, rotate_at, down_since>>
  BY DEF initialize_current, WriteLeaf, RotationInv, ProcessInv
<1>2. 1 \in 1..MAX_EPOCH /\ now - CLOCK_SKEW_ALLOWANCE \in Int
  BY Constants DEF RotationInv, ClockInv
<1>3. /\ leaf \in Certificate /\ leaf.epoch = 1 /\ leaf.hash = generated + 1
      /\ leaf = [epoch |-> 1, hash |-> generated + 1,
                 not_before |-> now - CLOCK_SKEW_ALLOWANCE,
                 not_after |-> now - CLOCK_SKEW_ALLOWANCE + CERTIFICATE_LIFETIME]
  BY <1>2, NewLeaf DEF generate_leaf
<1> HIDE DEF leaf
<1>4. control_key \in Nat /\ generated \in Nat
  BY <1>1 DEF RotationInv, FilesType
<1>5. FilesType' /\ leaves'[1] = generated + 1
  BY <1>1, <1>2, <1>3, <1>4 DEF RotationInv, FilesType, Phases
<1>6. working' \in Manifest /\ working'.current = leaf /\ working'.signer = control_key
  BY <1>1, <1>3, <1>4 DEF Manifest
<1>7. ProcessInv'
  BY <1>1, <1>3, <1>5, <1>6 DEF ProcessInv
<1>8. QED
  BY <1>1, <1>5, <1>7 DEF RotationInv, ClockInv, ManifestInv, AdvertisedInv

LEMMA RotationSecond == ASSUME ShortDowntime, RotationInv, initialize_next PROVE RotationInv'
<1> DEFINE leaf == generate_leaf(2, now + CERTIFICATE_EPOCH_STEP)
           c == working.current
<1>1. /\ phase = "second" /\ phase' = "persist" /\ manifest = Null
      /\ generated' = generated + 1
      /\ leaves' = [leaves EXCEPT ![leaf.epoch] = leaf.hash]
      /\ working' = [working EXCEPT !.next = leaf]
      /\ UNCHANGED <<clock, manifest, control_key, now, advertised, rotate_at, down_since>>
  BY DEF initialize_next, WriteLeaf, RotationInv, ProcessInv
<1>2. 2 \in 1..MAX_EPOCH /\ now + CERTIFICATE_EPOCH_STEP \in Int /\ now \in Nat
  BY Constants DEF RotationInv, ClockInv
<1>3. /\ leaf \in Certificate /\ leaf.epoch = 2 /\ leaf.hash = generated + 1
      /\ leaf.not_before = now + CERTIFICATE_EPOCH_STEP
      /\ leaf.not_after = now + CERTIFICATE_EPOCH_STEP + CERTIFICATE_LIFETIME
  BY <1>2, NewLeaf
<1>4. /\ working \in Manifest /\ working.signer = control_key
      /\ c.epoch = 1 /\ c.hash = leaves[1]
      /\ c.not_before = now - CLOCK_SKEW_ALLOWANCE
      /\ c.not_after = now - CLOCK_SKEW_ALLOWANCE + CERTIFICATE_LIFETIME
  BY <1>1 DEF RotationInv, ProcessInv
<1> HIDE DEF leaf, c
<1>5. /\ working' \in Manifest /\ working'.current = c /\ working'.next = leaf
      /\ working'.signer = control_key
  BY <1>1, <1>3, <1>4 DEF Manifest, c
<1>6. FilesType' /\ leaves'[1] = leaves[1] /\ leaves'[2] = generated + 1
  BY <1>1, <1>2, <1>3 DEF RotationInv, FilesType, Phases
<1>7. leaf.not_before + MAX_DOWNTIME < c.not_after /\ leaf.not_before < c.not_after
  BY <1>2, <1>3, <1>4, Constants DEF ShortDowntime
<1>8. /\ c.epoch + 1 = leaf.epoch
      /\ c.not_before < c.not_after /\ leaf.not_before < leaf.not_after
      /\ c.not_after - c.not_before = CERTIFICATE_LIFETIME
      /\ leaf.not_after - leaf.not_before = CERTIFICATE_LIFETIME
      /\ c.not_before <= now
  BY <1>2, <1>3, <1>4, Constants
<1>9. Sound(working)'
  <2>1. validate_manifest(working')
    BY <1>5, <1>7, <1>8 DEF validate_manifest, windows_overlap
  <2>2. require_leaf_hash(working.current)' /\ require_leaf_hash(working.next)'
    BY <1>3, <1>4, <1>5, <1>6 DEF require_leaf_hash
  <2>3. QED
    BY <1>1, <1>5, <1>7, <2>1, <2>2 DEF Sound
<1>10. ProcessInv'
  BY <1>1, <1>3, <1>5, <1>8, <1>9 DEF ProcessInv
<1>11. QED
  BY <1>1, <1>6, <1>10 DEF RotationInv, ClockInv, ManifestInv, AdvertisedInv

LEMMA RotationRotate == ASSUME ShortDowntime, RotationInv, rotate_manifest PROVE RotationInv'
<1> DEFINE leaf == generate_leaf(working.next.epoch + 1, now + CERTIFICATE_EPOCH_STEP)
           c == manifest.next
<1>1. /\ phase = "rotate" /\ phase' = "persist" /\ working.next.epoch < MAX_EPOCH
      /\ generated' = generated + 1
      /\ leaves' = [leaves EXCEPT ![leaf.epoch] = leaf.hash]
      /\ working' = [current |-> working.next, next |-> leaf, signer |-> control_key]
      /\ UNCHANGED <<clock, manifest, control_key, now, advertised, rotate_at, down_since>>
  BY DEF rotate_manifest, WriteLeaf
<1>2. manifest # Null /\ working = manifest /\ c.not_before <= now
  BY <1>1 DEF RotationInv, ProcessInv
<1>3. Sound(manifest) /\ down_since <= c.not_before + MAX_DOWNTIME
  BY <1>2 DEF RotationInv, ManifestInv
<1>4. /\ c \in Certificate /\ c.epoch \in 1..MAX_EPOCH /\ c.hash \in Nat
      /\ c.not_before \in Int /\ c.not_after = c.not_before + CERTIFICATE_LIFETIME
      /\ manifest.current.epoch \in 1..MAX_EPOCH /\ manifest.current.epoch + 1 = c.epoch
      /\ leaves[c.epoch] = c.hash
  BY <1>3, SoundTypes DEF Sound, require_leaf_hash
<1>5. c.epoch + 1 \in 1..MAX_EPOCH /\ now + CERTIFICATE_EPOCH_STEP \in Int /\ now \in Nat
  BY <1>1, <1>2, <1>4, Constants DEF RotationInv, ClockInv
<1>6. /\ leaf \in Certificate /\ leaf.epoch = c.epoch + 1 /\ leaf.hash = generated + 1
      /\ leaf.not_before = now + CERTIFICATE_EPOCH_STEP
      /\ leaf.not_after = now + CERTIFICATE_EPOCH_STEP + CERTIFICATE_LIFETIME
  BY <1>2, <1>5, NewLeaf
<1>7. control_key \in Nat /\ generated \in Nat
  BY <1>1 DEF RotationInv, FilesType
<1> HIDE DEF leaf, c
<1>8. /\ working' \in Manifest /\ working'.current = c /\ working'.next = leaf
      /\ working'.signer = control_key
  BY <1>1, <1>2, <1>4, <1>6, <1>7 DEF Manifest, c
<1>9. /\ FilesType'
      /\ leaves'[manifest.current.epoch] = leaves[manifest.current.epoch]
      /\ leaves'[c.epoch] = leaves[c.epoch]
      /\ leaves'[leaf.epoch] = leaf.hash
  <2>1. leaf.epoch \in 1..MAX_EPOCH /\ leaf.epoch # c.epoch /\ leaf.epoch # manifest.current.epoch
    BY <1>4, <1>5, <1>6
  <2>2. QED
    BY <1>1, <1>4, <1>6, <1>7, <2>1 DEF RotationInv, FilesType, Phases
\* The clock has passed the start of c by two times without a gateway at most.
<1>10. leaf.not_before + MAX_DOWNTIME < c.not_after /\ leaf.not_before < c.not_after
  <2>1. now <= down_since + MAX_DOWNTIME /\ down_since \in Nat
    BY <1>1, Constants DEF RotationInv, ClockInv
  <2>2. QED
    BY <1>3, <1>4, <1>5, <1>6, <2>1, Constants DEF ShortDowntime, c
<1>11. /\ c.epoch + 1 = leaf.epoch
       /\ c.not_before < c.not_after /\ leaf.not_before < leaf.not_after
       /\ c.not_after - c.not_before = CERTIFICATE_LIFETIME
       /\ leaf.not_after - leaf.not_before = CERTIFICATE_LIFETIME
  BY <1>4, <1>5, <1>6, Constants
<1>12. Sound(working)'
  <2>1. validate_manifest(working')
    BY <1>8, <1>10, <1>11 DEF validate_manifest, windows_overlap
  <2>2. require_leaf_hash(working.current)' /\ require_leaf_hash(working.next)'
    BY <1>4, <1>8, <1>9 DEF require_leaf_hash
  <2>3. QED
    BY <1>1, <1>8, <1>10, <2>1, <2>2 DEF Sound
<1>13. ProcessInv'
  BY <1>1, <1>2, <1>6, <1>8, <1>12 DEF ProcessInv, c
<1>14. ManifestInv'
  <2>1. Sound(manifest)'
    BY <1>1, <1>3, <1>9, SoundFrame DEF c
  <2>2. QED
    BY <1>1, <2>1 DEF RotationInv, ManifestInv
<1>15. AdvertisedInv'
  BY <1>1, <1>8 DEF RotationInv, AdvertisedInv, c
<1>16. QED
  BY <1>1, <1>9, <1>13, <1>14, <1>15 DEF RotationInv, ClockInv

LEMMA RotationPersist == ASSUME ShortDowntime, RotationInv, persist_manifest PROVE RotationInv'
<1>1. /\ phase = "persist" /\ phase' = "load" /\ manifest' = working
      /\ UNCHANGED <<clock, leaves, control_key, generated, now, working, advertised,
                     rotate_at, down_since>>
  BY DEF persist_manifest
<1>2. /\ Sound(working)
      /\ working.current.not_before <= now
      /\ working.next.not_before = now + CERTIFICATE_EPOCH_STEP
  BY <1>1 DEF RotationInv, ProcessInv
<1>3. now \in Nat /\ down_since \in Nat /\ down_since <= now
  BY <1>1 DEF RotationInv, ClockInv
<1>4. /\ down_since <= working.next.not_before + MAX_DOWNTIME
      /\ down_since + MAX_DOWNTIME < working.next.not_before
  BY <1>2, <1>3, Constants DEF ShortDowntime
<1>5. Sound(manifest)'
  BY <1>1, <1>2, SoundFrame DEF Sound, require_leaf_hash
<1>6. working # Null
  BY <1>2, SoundTypes
<1>7. ManifestInv' /\ ProcessInv'
  BY <1>1, <1>2, <1>4, <1>5, <1>6 DEF ManifestInv, ProcessInv
<1>8. AdvertisedInv'
  BY <1>1, <1>4, <1>6 DEF RotationInv, AdvertisedInv
<1>9. QED
  BY <1>1, <1>7, <1>8 DEF RotationInv, ClockInv, FilesType, Phases

LEMMA RotationServe == ASSUME RotationInv, serve PROVE RotationInv'
<1>1. /\ phase = "load" /\ phase' = "serving" /\ Loadable(working)
      /\ advertised' = working
      /\ rotate_at' = clock + (working.next.not_before - now)
      /\ UNCHANGED <<clock, files, now, working, down_since>>
  BY DEF serve
<1>2. manifest # Null /\ working = manifest /\ working.current.not_before <= now
  BY <1>1 DEF RotationInv, ProcessInv
<1>3. Sound(working) /\ working.next.not_before \in Int
  BY <1>2, SoundTypes DEF RotationInv, ManifestInv
<1>4. /\ clock \in Nat /\ now \in Nat /\ down_since \in Nat
      /\ down_since <= now /\ now <= clock /\ clock <= down_since + MAX_DOWNTIME
  BY <1>1 DEF RotationInv, ClockInv
<1>5. /\ rotate_at' \in Int /\ clock <= rotate_at'
      /\ rotate_at' <= working.next.not_before + MAX_DOWNTIME
  BY <1>1, <1>3, <1>4, Constants DEF Loadable
<1>6. FilesType' /\ \A m : Sound(m) => Sound(m)'
  BY <1>1, FilesFrame DEF Phases, RotationInv, FilesType
<1>7. ClockInv'
  BY <1>1, <1>5 DEF RotationInv, ClockInv
<1>8. ManifestInv' /\ ProcessInv' /\ AdvertisedInv'
  BY <1>1, <1>2, <1>5, <1>6 DEF files, RotationInv, ManifestInv, ProcessInv, AdvertisedInv
<1>9. QED
  BY <1>6, <1>7, <1>8 DEF RotationInv

LEMMA RotationStop == ASSUME RotationInv, Stop PROVE RotationInv'
<1>1. /\ phase' = "down"
      /\ down_since' = IF phase = "serving" THEN clock ELSE down_since
      /\ UNCHANGED <<clock, files, now, working, advertised, rotate_at>>
  BY DEF Stop
<1>2. FilesType' /\ \A m : Sound(m) => Sound(m)'
  BY <1>1, FilesFrame DEF Phases
<1>3. ClockInv'
  BY <1>1, Constants DEF RotationInv, ClockInv
<1>4. phase = "serving" =>
        /\ manifest # Null /\ working = manifest
        /\ clock <= manifest.next.not_before + MAX_DOWNTIME
  <2> SUFFICES ASSUME phase = "serving"
               PROVE  /\ manifest # Null /\ working = manifest
                      /\ clock <= manifest.next.not_before + MAX_DOWNTIME
    OBVIOUS
  <2>1. /\ manifest # Null /\ working = manifest
        /\ clock <= rotate_at /\ rotate_at <= manifest.next.not_before + MAX_DOWNTIME
    BY DEF RotationInv, ProcessInv
  <2>2. manifest.next.not_before \in Int
    BY <2>1, SoundTypes DEF RotationInv, ManifestInv
  <2>3. clock \in Nat /\ rotate_at \in Int
    BY DEF RotationInv, ClockInv
  <2>4. QED
    BY <2>1, <2>2, <2>3, Constants
<1>5. ManifestInv' /\ ProcessInv' /\ AdvertisedInv'
  BY <1>1, <1>2, <1>4 DEF files, RotationInv, ManifestInv, ProcessInv, AdvertisedInv
<1>6. QED
  BY <1>2, <1>3, <1>5 DEF RotationInv

LEMMA RotationTick == ASSUME RotationInv, Tick \/ UNCHANGED vars PROVE RotationInv'
<1>1. UNCHANGED <<files, phase, now, working, advertised, rotate_at, down_since>>
  BY DEF Tick, vars, files
<1>2. FilesType' /\ \A m : Sound(m) => Sound(m)'
  BY <1>1, FilesFrame DEF RotationInv, FilesType
<1>3. ClockInv' /\ (phase = "serving" => clock' <= rotate_at)
  <2>1. CASE Tick
    BY <1>1, <2>1, Constants DEF Tick, RotationInv, ClockInv
  <2>2. CASE UNCHANGED vars
    BY <2>2 DEF vars, RotationInv, ClockInv, ProcessInv
  <2>3. QED
    BY <2>1, <2>2
<1>4. ManifestInv' /\ ProcessInv' /\ AdvertisedInv'
  BY <1>1, <1>2, <1>3 DEF files, RotationInv, ManifestInv, ProcessInv, AdvertisedInv
<1>5. QED
  BY <1>2, <1>3, <1>4 DEF RotationInv

\* The inductive invariant, under the promise about downtime.
LEMMA RotationInvariant ==
  ASSUME ShortDowntime
  PROVE  Spec => []RotationInv
<1>1. RotationInv /\ [Next]_vars => RotationInv'
  BY RotationStart, RotationKey, RotationPrepare, RotationFirst, RotationSecond,
     RotationRotate, RotationPersist, RotationServe, RotationStop, RotationTick DEF Next
<1>2. QED
  BY RotationInit, <1>1, PTL DEF Spec

\* Wherever a process ended, the manifest it left is signed, consistent,
\* overlapping and names the leaf files on disk (prepare, rotate_manifest,
\* persist_manifest).
THEOREM ManifestAcceptedCorrect ==
  ASSUME ShortDowntime
  PROVE  Spec => []ManifestAccepted
<1>1. RotationInv => ManifestAccepted
  BY DEF RotationInv, ManifestInv, Sound, ManifestAccepted, decode_and_verify_manifest
<1>2. QED
  BY RotationInvariant, <1>1, PTL

\* A gateway serves its leaf inside the leaf's window of validity, the delay of
\* its rotation timer included (serve, wait_for_rotation).
THEOREM ServesValidCorrect ==
  ASSUME ShortDowntime
  PROVE  Spec => []ServesValid
<1>1. RotationInv => ServesValid
  <2> SUFFICES ASSUME RotationInv, phase = "serving"
               PROVE  working.current.not_before <= clock /\ clock < working.current.not_after
    BY DEF ServesValid
  <2>1. /\ manifest # Null /\ working = manifest
        /\ working.current.not_before <= now
        /\ clock <= rotate_at /\ rotate_at <= working.next.not_before + MAX_DOWNTIME
    BY DEF RotationInv, ProcessInv
  <2>2. /\ working.current.not_before \in Int /\ working.next.not_before \in Int
        /\ working.current.not_after \in Int
        /\ working.next.not_before + MAX_DOWNTIME < working.current.not_after
    BY <2>1, SoundTypes, Constants DEF RotationInv, ManifestInv
  <2>3. clock \in Nat /\ now \in Nat /\ rotate_at \in Int /\ now <= clock
    BY DEF RotationInv, ClockInv
  <2>4. QED
    BY <2>1, <2>2, <2>3, Constants
<1>2. QED
  BY RotationInvariant, <1>1, PTL

\* The leaf of a process was advertised by the process that served before it
\* (rotate_manifest promotes the next leaf).
THEOREM ServesAdvertisedCorrect ==
  ASSUME ShortDowntime
  PROVE  Spec => ServesAdvertised
<1>1. ASSUME RotationInv, [Next]_vars, advertised' # advertised, advertised # Null
      PROVE  advertised'.current \in {advertised.current, advertised.next}
  <2>1. serve
    BY <1>1 DEF Next, Start, load_or_create_control_key, prepare, initialize_current,
       initialize_next, rotate_manifest, WriteLeaf, persist_manifest, Stop, Tick, vars
  <2>2. advertised' = manifest
    BY <1>1, <2>1 DEF serve, RotationInv, ProcessInv
  <2>3. QED
    BY <1>1, <2>2 DEF RotationInv, AdvertisedInv
<1>2. RotationInv /\ [Next]_vars =>
        [(advertised' # advertised /\ advertised # Null) =>
           advertised'.current \in {advertised.current, advertised.next}]_vars
  BY <1>1
<1>3. QED
  BY RotationInvariant, <1>2, PTL DEF Spec, ServesAdvertised
============================================================================
