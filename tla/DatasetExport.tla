---------------------------- MODULE DatasetExport ----------------------------
(***************************************************************************)
(* The command that turns an organization's approved product specs into a  *)
(* data set for fine-tuning.  It runs beside the server: while it rebuilds *)
(* the prompts, one read at a time, members edit workspaces and approve    *)
(* documents.  Several exports may write into one directory.               *)
(*                                                                         *)
(* Specs are the organization's succeeded product specs that the filters   *)
(* of the command let through, in one language.  Of the text of a document *)
(* only the verdict of the gates that look at it is kept, of a prompt the  *)
(* material it is built from; answers are the visible ones.                *)
(***************************************************************************)
EXTENDS Integers, FiniteSetsExt

CONSTANTS Exports,         \* runs of the command
          ExportOptions,   \* the flags each may be started with
          Specs, FolderOf,  \* the documents, and the workspace of each
          MadeFrom,        \* what the prompt of each document was built from
          Legacy,          \* documents without a fingerprint
          Rejected,        \* documents whose text a gate refuses
          Marked,          \* materials whose prompt has the marker of a smoke test
          Materials,       \* what a workspace's name, profile and answers may become
          FirstFiles,      \* what the directory may hold at first
          TrainSide,       \* workspaces that salt and ratio put into train
          NoFile, Garbled, NoOptions, Unread

Folders == {FolderOf[d] : d \in Specs}
Material == UNION {Materials[w] : w \in Folders}

Options == [dedupe : {"none", "fingerprint", "workspace-latest"},
            force : BOOLEAN, dry : BOOLEAN, legacy : BOOLEAN, listSkipped : BOOLEAN,
            excludeSmoke : BOOLEAN]

ASSUME ExportAssumption ==
  /\ IsFiniteSet(Specs)
  /\ ExportOptions \in [Exports -> SUBSET Options]
  /\ NoOptions \notin Options
  /\ \A f \in FirstFiles : f = [a \in {"manifest", "train", "val", "skipped"} |-> f[a]]
  /\ \A m \in Material : m = [name |-> m.name, profile |-> m.profile, answers |-> m.answers]

VARIABLES
  material,    \* what the prompt of each workspace is built from
  approvedAt,  \* when each document was approved, 0 for a draft
  flags,      \* what an export was started with
  xpc,         \* where it is
  candidates,  \* the documents it has listed
  todo,        \* those it has still to look at
  gathered,        \* what it has read for the one it is looking at
  built,       \* the rows it has built
  skipped,     \* the documents it has skipped
  file,        \* the files of the directory
  touched      \* exports whose directory another one wrote to after they looked at it

studioSide == <<material, approvedAt>>
directory == <<file, touched>>
exportVars == <<studioSide, flags, xpc, candidates, todo, gathered, built, skipped, directory>>

\* The files, and the stages in which they are written.
Files == {"manifest", "train", "val", "skipped"}
ExportStages ==
  {"idle", "connected", "listed", "workspace", "profile", "prepare", "ok", "empty", "failed"}
    \union Files

----------------------------------------------------------------------------
\* Mutant: a fingerprint that forgets the answers.
FingerprintOfProfile(w, m) == <<w, m.profile>>

(***************************************************************************)
(* The fingerprint of a context: it leaves out the workspace's name, which *)
(* the prompt shows.                                                       *)
(***************************************************************************)
Fingerprint(w, m) == <<w, m.profile, m.answers>>

\* The gates a candidate passes when its context has been rebuilt as m.
PassesGates(o, d, m) ==
  /\ IF d \in Legacy THEN o.legacy
     ELSE Fingerprint(FolderOf[d], m) = Fingerprint(FolderOf[d], MadeFrom[d])
  /\ d \notin Rejected
  /\ o.excludeSmoke => m \notin Marked

\* What counts as the same row.
DedupeKey(mode, r) ==
  CASE mode = "none"             -> r.doc
    [] mode = "workspace-latest" -> FolderOf[r.doc]
    [] mode = "fingerprint"      -> Fingerprint(FolderOf[r.doc], r.material)

LatestRows(mode, rows) ==
  {r \in rows : \A s \in rows : DedupeKey(mode, s) = DedupeKey(mode, r) =>
                                  approvedAt[s.doc] <= approvedAt[r.doc]}

IsTrain(r) == FolderOf[r.doc] \in TrainSide
TrainRows(rows) == IF Cardinality(rows) = 1 THEN rows ELSE {r \in rows : IsTrain(r)}
ValRows(rows) == rows \ TrainRows(rows)

ManifestOf(e) ==
  [candidates |-> Cardinality(candidates[e]), exported |-> Cardinality(built[e]),
   skipped |-> Cardinality(skipped[e]),
   train |-> Cardinality(TrainRows(built[e])), val |-> Cardinality(ValRows(built[e]))]

ExportTypeOK ==
  /\ material \in [Folders -> Material]
  /\ approvedAt \in [Specs -> Nat]
  /\ flags \in [Exports -> Options \union {NoOptions}]
  /\ xpc \in [Exports -> ExportStages]
  /\ candidates \in [Exports -> SUBSET Specs]
  /\ todo \in [Exports -> SUBSET Specs]
  /\ skipped \in [Exports -> SUBSET Specs]
  /\ DOMAIN gathered = Exports /\ DOMAIN built = Exports /\ DOMAIN file = Files
  /\ touched \subseteq Exports

ExportInit ==
  /\ material \in {m \in [Folders -> Material] : \A w \in Folders : m[w] \in Materials[w]}
  /\ approvedAt = [d \in Specs |-> 0]
  /\ flags = [e \in Exports |-> NoOptions]
  /\ xpc = [e \in Exports |-> "idle"]
  /\ candidates = [e \in Exports |-> {}]
  /\ todo = [e \in Exports |-> {}]
  /\ gathered = [e \in Exports |-> Unread]
  /\ built = [e \in Exports |-> {}]
  /\ skipped = [e \in Exports |-> {}]
  /\ file \in FirstFiles
  /\ touched = {}

----------------------------------------------------------------------------
(***************************************************************************)
(* Members change a workspace, and approve documents one after another.    *)
(***************************************************************************)
ChangeMaterial(w) ==
  /\ \E m \in Materials[w] : material' = [material EXCEPT ![w] = m]
  /\ UNCHANGED <<approvedAt, flags, xpc, candidates, todo, gathered, built, skipped, directory>>

Approve(d) ==
  /\ approvedAt[d] = 0
  /\ \E t \in 1 .. Cardinality(Specs) :
       /\ \A c \in Specs : approvedAt[c] < t
       /\ t = 1 \/ \E c \in Specs : approvedAt[c] = t - 1
       /\ approvedAt' = [approvedAt EXCEPT ![d] = t]
  /\ UNCHANGED <<material, flags, xpc, candidates, todo, gathered, built, skipped, directory>>

----------------------------------------------------------------------------
Proceed(e, from, to) == xpc[e] = from /\ xpc' = [xpc EXCEPT ![e] = to]

\* The command is started, and connects or not.
Connect(e) ==
  /\ Proceed(e, "idle", "connected") \/ Proceed(e, "idle", "failed")
  /\ \E o \in ExportOptions[e] : flags' = [flags EXCEPT ![e] = o]
  /\ UNCHANGED <<studioSide, candidates, todo, gathered, built, skipped, directory>>

ListForPEFTExport(e) ==
  /\ Proceed(e, "connected", "listed")
  /\ candidates' = [candidates EXCEPT ![e] = {d \in Specs : approvedAt[d] > 0}]
  /\ todo' = [todo EXCEPT ![e] = candidates'[e]]
  /\ UNCHANGED <<studioSide, flags, gathered, built, skipped, directory>>

ListError(e) ==
  /\ Proceed(e, "connected", "failed")
  /\ UNCHANGED <<studioSide, flags, candidates, todo, gathered, built, skipped, directory>>

\* The candidates in the order of their approval, each with three reads.
ReadWorkspace(e) ==
  /\ Proceed(e, "listed", "workspace")
  /\ \E d \in todo[e] :
       /\ \A c \in todo[e] : approvedAt[d] <= approvedAt[c]
       /\ gathered' = [gathered EXCEPT ![e] = [doc |-> d, name |-> material[FolderOf[d]].name]]
       /\ todo' = [todo EXCEPT ![e] = @ \ {d}]
  /\ UNCHANGED <<studioSide, flags, candidates, built, skipped, directory>>

ReadProfileRow(e) ==
  /\ Proceed(e, "workspace", "profile")
  /\ LET w == FolderOf[gathered[e].doc] IN
       gathered' = [gathered EXCEPT ![e] = [doc |-> gathered[e].doc, name |-> gathered[e].name,
                                    profile |-> material[w].profile]]
  /\ UNCHANGED <<studioSide, flags, candidates, todo, built, skipped, directory>>

Rebuilt(e) ==
  [name |-> gathered[e].name, profile |-> gathered[e].profile,
   answers |-> material[FolderOf[gathered[e].doc]].answers]

ReadAnswersKeep(e) ==
  /\ Proceed(e, "profile", "listed")
  /\ PassesGates(flags[e], gathered[e].doc, Rebuilt(e))
  /\ built' = [built EXCEPT ![e] = @ \union {[doc |-> gathered[e].doc, material |-> Rebuilt(e)]}]
  /\ UNCHANGED <<studioSide, flags, candidates, todo, gathered, skipped, directory>>

SkipCandidate(e) == skipped' = [skipped EXCEPT ![e] = @ \union {gathered[e].doc}]

ReadAnswersSkip(e) ==
  /\ Proceed(e, "profile", "listed")
  /\ ~ PassesGates(flags[e], gathered[e].doc, Rebuilt(e))
  /\ SkipCandidate(e)
  /\ UNCHANGED <<studioSide, flags, candidates, todo, gathered, built, directory>>

\* A read fails, or the command's five minutes are over: the candidate is
\* skipped as an invalid row and the export goes on.
RebuildError(e) ==
  /\ Proceed(e, "workspace", "listed") \/ Proceed(e, "profile", "listed")
  /\ SkipCandidate(e)
  /\ UNCHANGED <<studioSide, flags, candidates, todo, gathered, built, directory>>

DedupeRows(e) ==
  /\ Proceed(e, "listed", "prepare")
  /\ todo[e] = {}
  /\ LET kept == LatestRows(flags[e].dedupe, built[e]) IN
       /\ built' = [built EXCEPT ![e] = kept]
       /\ skipped' = [skipped EXCEPT ![e] = @ \union {r.doc : r \in built[e] \ kept}]
  /\ UNCHANGED <<studioSide, flags, candidates, todo, gathered, directory>>

----------------------------------------------------------------------------
(***************************************************************************)
(* The files.  A directory that is not empty is refused without --force;   *)
(* with it, each file is truncated and written anew, in this order.        *)
(***************************************************************************)
PrepareOutDir(e) ==
  /\ \/ /\ Proceed(e, "prepare", "manifest")
        /\ flags[e].force \/ \A f \in Files : file[f] = NoFile
     \/ /\ Proceed(e, "prepare", "failed")
        /\ ~ flags[e].force /\ \E f \in Files : file[f] # NoFile
  /\ touched' = touched \ {e}
  /\ UNCHANGED <<studioSide, flags, candidates, todo, gathered, built, skipped, file>>

\* What a file holds when all of it has been written.
ContentOf(e, f) ==
  CASE f = "manifest" -> ManifestOf(e)
    [] f = "train"    -> TrainRows(built[e])
    [] f = "val"      -> ValRows(built[e])
    [] f = "skipped"  -> skipped[e]

Outcome(e) == IF built[e] = {} THEN "empty" ELSE "ok"

FileAfter(e, f) ==
  CASE f = "manifest" -> IF flags[e].dry THEN Outcome(e) ELSE "train"
    [] f = "train"    -> "val"
    [] f = "val"      -> IF flags[e].listSkipped /\ skipped[e] # {} THEN "skipped" ELSE Outcome(e)
    [] f = "skipped"  -> Outcome(e)

Touch(e, f, content) ==
  /\ file' = [file EXCEPT ![f] = content]
  /\ touched' = touched \union (Exports \ {e})
  /\ UNCHANGED <<studioSide, flags, candidates, todo, gathered, built, skipped>>

WriteArtifact(e, f) ==
  /\ Proceed(e, f, FileAfter(e, f))
  /\ Touch(e, f, ContentOf(e, f))

\* The command dies, or the disk is full, in the middle of a file.
WriteBreaksOff(e, f) ==
  /\ Proceed(e, f, "failed")
  /\ \E part \in IF f = "manifest" THEN {Garbled} ELSE SUBSET ContentOf(e, f) : Touch(e, f, part)

ExportDies(e) ==
  /\ xpc[e] \notin {"idle", "ok", "empty", "failed"}
  /\ xpc' = [xpc EXCEPT ![e] = "failed"]
  /\ UNCHANGED <<studioSide, flags, candidates, todo, gathered, built, skipped, directory>>

ExportNext ==
  \/ \E w \in Folders : ChangeMaterial(w)
  \/ \E d \in Specs : Approve(d)
  \/ \E e \in Exports :
       \/ Connect(e) \/ ListForPEFTExport(e) \/ ListError(e) \/ ReadWorkspace(e)
       \/ ReadProfileRow(e) \/ ReadAnswersKeep(e) \/ ReadAnswersSkip(e) \/ RebuildError(e)
       \/ DedupeRows(e) \/ PrepareOutDir(e) \/ ExportDies(e)
       \/ \E f \in Files : WriteArtifact(e, f) \/ WriteBreaksOff(e, f)

ExportSpec == ExportInit /\ [][ExportNext]_exportVars

----------------------------------------------------------------------------
\* What an export has told its caller it has written is one data set, however
\* many wrote to the directory before (Execute, WriteExportArtifacts): as many
\* rows as the manifest says, each the latest approved of its key, no workspace
\* in both files, no row of a smoke test where they are excluded, and no row
\* whose profile or answers are not those its document was made from, though
\* they are read while members change them.  Legacy documents are exempt from
\* the last.
DatasetsAreSound ==
  \A e \in Exports :
    xpc[e] \in {"ok", "empty"} /\ ~ flags[e].dry /\ e \notin touched =>
      LET rows == file["train"] \union file["val"] IN
      /\ file["manifest"] = ManifestOf(e)
      /\ file["manifest"].train = Cardinality(file["train"])
      /\ file["manifest"].val = Cardinality(file["val"])
      /\ \A r \in file["train"], s \in file["val"] : FolderOf[r.doc] # FolderOf[s.doc]
      /\ \A r, s \in rows : DedupeKey(flags[e].dedupe, r) = DedupeKey(flags[e].dedupe, s) => r = s
      /\ \A r \in rows :
           /\ approvedAt[r.doc] > 0 /\ r.doc \notin Rejected
           /\ flags[e].excludeSmoke => r.material \notin Marked
           /\ r.doc \notin Legacy => r.material.profile = MadeFrom[r.doc].profile
                                     /\ r.material.answers = MadeFrom[r.doc].answers
=============================================================================
