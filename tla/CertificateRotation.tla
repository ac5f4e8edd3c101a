------------------------- MODULE CertificateRotation ------------------------
(***************************************************************************)
(* The certificate identity of renee-gatewayd (identity.rs, debug builds): *)
(* a signed manifest on disk names the current and the next leaf with      *)
(* their windows of validity.  A process prepares its identity from the    *)
(* files, serves the current leaf, and ends when the next one begins, so   *)
(* that its replacement rotates the manifest.                              *)
(*                                                                         *)
(* Every file is replaced atomically and synchronized before the next one  *)
(* is written, and the process may crash between any two writes.  A hash   *)
(* is the number of the generation that made the leaf.  The clock advances *)
(* in units of which MAX_DOWNTIME bounds a time without a serving process: *)
(* it is the promise of whoever restarts the gateway, not of its code.     *)
(***************************************************************************)
EXTENDS Integers

CONSTANTS
  CERTIFICATE_LIFETIME,
  CERTIFICATE_EPOCH_STEP,
  CLOCK_SKEW_ALLOWANCE,
  MAX_EPOCH,      \* u32::MAX
  MAX_DOWNTIME,   \* environment: time between two serving processes
  MAX_CLOCK,      \* bound of the model
  MAX_LEAVES,     \* bound of the model: leaves generated
  Null

VARIABLES
  clock,
  leaves,       \* epoch -> hash of the leaf file, or Null
  manifest,     \* manifest file, or Null
  control_key,  \* control key file, or Null
  generated,    \* leaves generated so far
  phase,        \* where the process is in prepare and after it
  now,          \* the time that prepare was called with
  working,      \* the manifest that the process holds
  advertised,   \* history: the manifest of the last process that served
  rotate_at,    \* when the rotation timer of the serving process fires
  down_since    \* when the last process stopped serving

vars == <<clock, leaves, manifest, control_key, generated, phase, now, working,
          advertised, rotate_at, down_since>>
files == <<leaves, manifest, control_key, generated>>

ASSUME RotationConstants ==
  /\ CERTIFICATE_LIFETIME \in Nat /\ CERTIFICATE_EPOCH_STEP \in Nat \ {0}
  /\ CLOCK_SKEW_ALLOWANCE \in Nat /\ MAX_EPOCH \in Nat \ {0, 1} /\ MAX_DOWNTIME \in Nat
  /\ MAX_CLOCK \in Nat /\ MAX_LEAVES \in Nat
  /\ CLOCK_SKEW_ALLOWANCE + CERTIFICATE_EPOCH_STEP < CERTIFICATE_LIFETIME
----------------------------------------------------------------------------
Certificate ==
  [epoch : 1..MAX_EPOCH, hash : Nat, not_before : Int, not_after : Int]

\* A manifest is signed by the control key that exists when it is written.
Manifest == [current : Certificate, next : Certificate, signer : Nat]

\* A file that is absent differs from every file.
ASSUME NullAssumption == Null \notin Nat /\ Null \notin Manifest

Phases == {"down", "key", "manifest", "first", "second", "rotate", "persist", "load",
           "serving"}

generate_leaf(epoch, not_before) ==
  [epoch |-> epoch, hash |-> generated + 1, not_before |-> not_before,
   not_after |-> not_before + CERTIFICATE_LIFETIME]

windows_overlap(m) == m.next.not_before < m.current.not_after

validate_manifest(m) ==
  /\ m.current.epoch + 1 = m.next.epoch
  /\ m.current.not_before < m.current.not_after
  /\ m.next.not_before < m.next.not_after
  /\ windows_overlap(m)
  /\ m.current.not_after - m.current.not_before = CERTIFICATE_LIFETIME
  /\ m.next.not_after - m.next.not_before = CERTIFICATE_LIFETIME

decode_and_verify_manifest(m) == m.signer = control_key /\ validate_manifest(m)

require_leaf_hash(certificate) == leaves[certificate.epoch] = certificate.hash
----------------------------------------------------------------------------
Start ==
  /\ phase = "down"
  /\ phase' = "key"
  /\ now' = clock
  /\ UNCHANGED <<clock, files, working, advertised, rotate_at, down_since>>

load_or_create_control_key ==
  /\ phase = "key"
  /\ control_key' = IF control_key = Null THEN 1 ELSE control_key
  /\ phase' = "manifest"
  /\ UNCHANGED <<clock, leaves, manifest, generated, now, working, advertised,
                 rotate_at, down_since>>

\* The conditions on which prepare gives up with the manifest it has.  It tests
\* them on a manifest that it has just initialized too, where neither can hold:
\* the first leaf does not begin after now, and the next one ends after it.
Unusable(m) ==
  \/ now < m.current.not_before
  \/ now >= m.next.not_after

\* prepare, once it has read the manifest file.
prepare ==
  /\ phase = "manifest"
  /\ working' = manifest
  /\ \/ /\ manifest = Null
        /\ phase' = "first"
     \/ /\ manifest # Null
        /\ decode_and_verify_manifest(manifest)
        /\ ~Unusable(manifest)
        /\ phase' = IF now >= manifest.next.not_before THEN "rotate" ELSE "load"
  /\ UNCHANGED <<clock, files, now, advertised, rotate_at, down_since>>

\* The leaf of generate_leaf is written before the manifest that names it.
WriteLeaf(leaf) ==
  /\ generated < MAX_LEAVES
  /\ generated' = generated + 1
  /\ leaves' = [leaves EXCEPT ![leaf.epoch] = leaf.hash]
  /\ UNCHANGED <<clock, manifest, control_key, now, advertised, rotate_at, down_since>>

\* initialize_manifest writes two leaves.
initialize_current ==
  LET leaf == generate_leaf(1, now - CLOCK_SKEW_ALLOWANCE)
  IN  /\ phase = "first"
      /\ WriteLeaf(leaf)
      /\ working' = [current |-> leaf, next |-> leaf, signer |-> control_key]
      /\ phase' = "second"

\* Mutant of initialize_next: the next leaf starts when the current one ends.
initialize_next_late ==
  LET leaf == generate_leaf(2, working.current.not_after)
  IN  /\ phase = "second"
      /\ WriteLeaf(leaf)
      /\ working' = [working EXCEPT !.next = leaf]
      /\ phase' = "persist"

initialize_next ==
  LET leaf == generate_leaf(2, now + CERTIFICATE_EPOCH_STEP)
  IN  /\ phase = "second"
      /\ WriteLeaf(leaf)
      /\ working' = [working EXCEPT !.next = leaf]
      /\ phase' = "persist"

\* Mutant of rotate_manifest: the advertised next leaf is made anew.
rotate_manifest_unadvertised ==
  LET leaf == generate_leaf(working.next.epoch, working.next.not_before)
  IN  /\ phase = "rotate"
      /\ WriteLeaf(leaf)
      /\ working' = [current |-> leaf,
                     next |-> generate_leaf(leaf.epoch + 1, now + CERTIFICATE_EPOCH_STEP),
                     signer |-> control_key]
      /\ phase' = "persist"

rotate_manifest ==
  LET leaf == generate_leaf(working.next.epoch + 1, now + CERTIFICATE_EPOCH_STEP)
  IN  /\ phase = "rotate"
      /\ working.next.epoch < MAX_EPOCH
      /\ WriteLeaf(leaf)
      /\ working' = [current |-> working.next, next |-> leaf, signer |-> control_key]
      /\ phase' = "persist"

persist_manifest ==
  /\ phase = "persist"
  /\ manifest' = working
  /\ phase' = "load"
  /\ UNCHANGED <<clock, leaves, control_key, generated, now, working, advertised,
                 rotate_at, down_since>>

\* The rest of prepare: the leaf is valid and is the one that was signed, and
\* the delay until its rotation is not negative.
Loadable(m) ==
  /\ now < m.current.not_after
  /\ require_leaf_hash(m.current)
  /\ m.next.not_before >= now

\* Mutant of serve: the process rotates when its leaf has expired.
serve_to_the_end ==
  /\ phase = "load"
  /\ Loadable(working)
  /\ phase' = "serving"
  /\ advertised' = working
  /\ rotate_at' = clock + (working.current.not_after - now)
  /\ UNCHANGED <<clock, files, now, working, down_since>>

\* prepare succeeds; the endpoint and the rotation timer start.
serve ==
  /\ phase = "load"
  /\ Loadable(working)
  /\ phase' = "serving"
  /\ advertised' = working
  /\ rotate_at' = clock + (working.next.not_before - now)
  /\ UNCHANGED <<clock, files, now, working, down_since>>

\* The process ends: a crash at any point, an error that prepare returns, or
\* the end of wait_for_rotation.  None of them writes a file.
Stop ==
  /\ phase # "down"
  /\ phase' = "down"
  /\ down_since' = IF phase = "serving" THEN clock ELSE down_since
  /\ UNCHANGED <<clock, files, now, working, advertised, rotate_at>>

\* Time: the timer of a serving process fires when it is due, and a process
\* serves again within MAX_DOWNTIME.
Tick ==
  /\ clock < MAX_CLOCK
  /\ IF phase = "serving" THEN clock < rotate_at
     ELSE clock - down_since < MAX_DOWNTIME
  /\ clock' = clock + 1
  /\ UNCHANGED <<files, phase, now, working, advertised, rotate_at, down_since>>
----------------------------------------------------------------------------
Init ==
  /\ clock = 0
  /\ leaves = [epoch \in 1..MAX_EPOCH |-> Null]
  /\ manifest = Null
  /\ control_key = Null
  /\ generated = 0
  /\ phase = "down"
  /\ now = 0
  /\ working = Null
  /\ advertised = Null
  /\ rotate_at = 0
  /\ down_since = 0

Next ==
  \/ Start \/ load_or_create_control_key \/ prepare
  \/ initialize_current \/ initialize_next \/ rotate_manifest
  \/ persist_manifest \/ serve \/ Stop \/ Tick

Spec == Init /\ [][Next]_vars
----------------------------------------------------------------------------
\* Properties.

\* The files, the process and the clock have the shape that identity.rs gives
\* them.
TypeOK ==
  /\ clock \in Nat /\ now \in Nat /\ down_since \in Nat /\ rotate_at \in Int
  /\ leaves \in [1..MAX_EPOCH -> {Null} \cup Nat]
  /\ generated \in Nat
  /\ control_key \in {Null} \cup Nat
  /\ phase \in Phases
  /\ {manifest, working, advertised} \subseteq {Null} \cup Manifest

\* The downtime that the steps and lifetimes of the code leave room for: one
\* before a rotation, one while it is prepared, and one that delays its timer;
\* and no time without a gateway lasts for two rotations.
ShortDowntime ==
  /\ MAX_DOWNTIME < CERTIFICATE_EPOCH_STEP
  /\ CERTIFICATE_EPOCH_STEP + 3 * MAX_DOWNTIME < CERTIFICATE_LIFETIME
  /\ CERTIFICATE_EPOCH_STEP + CLOCK_SKEW_ALLOWANCE + MAX_DOWNTIME < CERTIFICATE_LIFETIME

\* The manifest on disk is one that the next process accepts: "two overlapping
\* leaves" (identity.rs:59), signed by the control key, with the leaf files it
\* names, wherever in prepare an earlier process ended.
ManifestAccepted ==
  manifest # Null =>
    /\ decode_and_verify_manifest(manifest)
    /\ require_leaf_hash(manifest.current)
    /\ require_leaf_hash(manifest.next)

\* A gateway serves its leaf only inside the leaf's window of validity.
ServesValid ==
  phase = "serving" =>
    /\ working.current.not_before <= clock
    /\ clock < working.current.not_after

\* A process serves a leaf that the manifest of its predecessor advertised, so
\* that a client that knows that manifest can reach it.
ServesAdvertised ==
  [][(advertised' # advertised /\ advertised # Null) =>
       advertised'.current \in {advertised.current, advertised.next}]_vars
============================================================================
