------------------------------ MODULE OutputDir ------------------------------
(***************************************************************************)
(* The directory an export writes into: the manifests on disk and          *)
(* manifest.json, the index that maps each of them to the environment that *)
(* produced it (rtk-environment/src/export/manifest.rs).  It is all that   *)
(* survives from one export to the next.                                   *)
(*                                                                         *)
(* A file's bytes are abstracted to what distinguishes them: the manifest  *)
(* of one environment at one revision of its sources, or torn (truncated   *)
(* or overlaid by an interrupted or concurrent write), or absent.          *)
(***************************************************************************)
EXTENDS Naturals

CONSTANTS
  File,      \* file names, relative to the output directory
  Ident,     \* environment identifiers, as manifest.json spells them
  Content,   \* what an intact file can hold
  Torn,      \* a truncated or partly written file
  NoFile,    \* no such file
  NoOwner    \* no entry in the index

ASSUME OutputDirAssumption ==
  /\ Torn \notin Content
  /\ NoFile \notin Content
  /\ Torn # NoFile
  /\ NoOwner \notin Ident

VARIABLES
  disk,      \* disk[f]: what the file holds
  indexFile, \* whether manifest.json is missing, readable or torn
  owner      \* owner[f]: the index, as last written in full

dirVars == <<disk, indexFile, owner>>

DirTypeOK ==
  /\ disk \in [File -> Content \cup {Torn, NoFile}]
  /\ indexFile \in {"missing", "readable", "torn"}
  /\ owner \in [File -> Ident \cup {NoOwner}]

DirInit ==
  /\ disk = [f \in File |-> NoFile]
  /\ indexFile = "missing"
  /\ owner = [f \in File |-> NoOwner]

-----------------------------------------------------------------------------
(* A directory holding anything at all, the index included, is not empty.  *)
IsEmptyDir ==
  /\ indexFile = "missing"
  /\ \A f \in File : disk[f] = NoFile

(* Manifest::read: a missing index is an empty one, a torn one is an error. *)
IndexReads == indexFile # "torn"

(* Manifest::files_of.  Every spelling of an identifier that it accepts is
   the same member of Ident here. *)
FilesOf(idents) == {f \in File : owner[f] \in idents}

(* Variant with a bug: deleted files stay in the index. *)
ReindexedWithoutForgetting(removed, claims) ==
  [f \in File |-> IF f \in DOMAIN claims THEN claims[f] ELSE owner[f]]

(* Manifest::forget and then Manifest::record, once per claimed file. *)
Reindexed(removed, claims) ==
  [f \in File |-> CASE f \in DOMAIN claims -> claims[f]
                    [] f \notin DOMAIN claims /\ f \in removed -> NoOwner
                    [] OTHER -> owner[f]]
=============================================================================
