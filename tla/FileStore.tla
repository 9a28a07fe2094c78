----------------------------- MODULE FileStore -----------------------------
(***************************************************************************)
(* What DiskFS promises across power failures, with a disk that reports no *)
(* errors: a store of named files of which one is updated at a time.  An   *)
(* update of one file never changes another; a file that did not exist     *)
(* appears complete or not at all; an overwritten file may be left torn,   *)
(* each sector old or new, under its old size; once the update is          *)
(* acknowledged the file is the one asked for, and stays.                  *)
(***************************************************************************)
EXTENDS Naturals

CONSTANTS Names,    \* file names
          SecsFile, \* sectors of a file
          Vals,     \* what a sector can hold
          Zero,     \* a sector of zeros
          Missing,  \* no such file
          NoUpdate  \* no update is under way

VARIABLES files,    \* what would be found on the disk by the next boot
          update    \* the update under way

Sectors  == 1 .. SecsFile
Contents == [size : 0 .. SecsFile, data : [Sectors -> Vals \cup {Zero}]]
Files    == Contents \cup {Missing}

(* An update replaces a file, removes it, or ("format") empties the store. *)
Updates == [kind : {"replace"}, name : Names, want : Files]
             \cup [kind : {"format"}]

Init == files \in [Names -> Files] /\ update = NoUpdate

(* Each visible sector of an overwritten file is the old one or the new one. *)
Torn(old, want) ==
  IF old = Missing \/ want = Missing THEN {}
  ELSE {f \in Contents :
          /\ f.size = old.size
          /\ \A i \in Sectors : f.data[i] \in
               IF i <= old.size THEN {old.data[i], want.data[i]} ELSE {Zero}}

Begin(u) ==
  /\ update = NoUpdate
  /\ update' = u
  /\ UNCHANGED files

Replace ==
  /\ update # NoUpdate /\ update.kind = "replace"
  /\ \E f \in {update.want} \cup Torn(files[update.name], update.want) :
       files' = [files EXCEPT ![update.name] = f]
  /\ UNCHANGED update

Empty ==
  /\ update # NoUpdate /\ update.kind = "format"
  /\ \E gone \in SUBSET Names :
       files' = [n \in Names |-> IF n \in gone THEN Missing ELSE files[n]]
  /\ UNCHANGED update

(* Acknowledged: what was asked for is on the disk. *)
Done ==
  /\ update # NoUpdate
  /\ files' = IF update.kind = "replace"
              THEN [files EXCEPT ![update.name] = update.want]
              ELSE [n \in Names |-> Missing]
  /\ update' = NoUpdate

(* A power failure: the update is abandoned where it was. *)
Crash ==
  /\ update' = NoUpdate
  /\ UNCHANGED files

(* With the machine off, the host puts a file of its own on the disk. *)
HostPut ==
  /\ update = NoUpdate
  /\ \E n \in Names, f \in Contents : files' = [files EXCEPT ![n] = f]
  /\ UNCHANGED update

Next == (\E u \in Updates : Begin(u)) \/ Replace \/ Empty \/ Done \/ Crash \/ HostPut

Spec == Init /\ [][Next]_<<files, update>>
=============================================================================
