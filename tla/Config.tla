------------------------------- MODULE Config -------------------------------
(***************************************************************************)
(* The startup configuration of debitmetre (src/src/config.rs): a TOML     *)
(* file is accepted as a whole or refused as a whole, before anything is   *)
(* opened or bound.                                                        *)
(*                                                                         *)
(* A file is [readable, toml, listen, usage_file, machine_keys]: whether   *)
(* it can be read, whether it is TOML with exactly the expected members,   *)
(* whether `listen` is an address, whether the usage path is "" or "path", *)
(* and the table from digests to machine ids.  A digest is                 *)
(* [of, form]: the key it was made from and how it is written, "hex64" (64 *)
(* lowercase hex digits), "upper" (uppercase) or "short".                  *)
(***************************************************************************)
EXTENDS FiniteSets

\* What a refused file yields instead of a configuration
Refused == [refused |-> TRUE]

\* sha2 and hex: keys with different text have different digests.
digest_hex(key) == [of |-> key, form |-> "hex64"]

is_digest_hex(digest) == digest.form = "hex64"

\* The loop over the table stops at the first entry that is not acceptable, so one
\* bad entry refuses the file; "  " stands for an id that is empty after trimming.
ValidKeys(machine_keys) ==
    /\ DOMAIN machine_keys # {}
    /\ \A digest \in DOMAIN machine_keys :
         is_digest_hex(digest) /\ machine_keys[digest] # "  "

try_from(raw) ==
    IF raw.listen /\ raw.usage_file # "" /\ ValidKeys(raw.machine_keys)
    THEN [machine_keys |-> raw.machine_keys]
    ELSE Refused

load(file) == IF file.readable /\ file.toml THEN try_from(file) ELSE Refused
=============================================================================
