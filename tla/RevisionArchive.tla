---------------------------- MODULE RevisionArchive ----------------------------
(* extract_revision_files: the two revisions' sources as archive_reader gives *)
(* them, each written where srcDiff will look for it.                         *)
(*                                                                            *)
(* A path is the sequence of its parts, "/" first where it is absolute; a     *)
(* file name is one path or one for each revision. A document's root names    *)
(* either a url (a directory was compared) or a file.                         *)
EXTENDS SourceRenderer

NoName == <<>>

GeneratedName(stem, n) == <<<<stem \o ToString(n)>>>>

UnitFilename(doc, n) ==
  LET filename == doc[FileUnits(doc)[n]].filename
  IN  IF filename = NoName THEN GeneratedName("unit", n) ELSE filename

(* split_revision_pair: a name without a "|" is the name in both revisions.  *)
SplitRevisionPair(name) == IF Len(name) = 1 THEN <<name[1], name[1]>> ELSE name

IsDirectory(doc) == ~IsSingleFileRoot(doc)

NormalizeRelative(path) == SelectSeq(path, LAMBDA part : part # "/")

(* choose_single_file_name: the last part of the root's name.                *)
SingleFileName(path, r) ==
  IF path = <<>> THEN GeneratedName("unit", r)[1] ELSE <<Last(path)>>

(* resolve_revision_output_paths: no path, no file in that revision.         *)
OutputPath(doc, n, r) ==
  LET path == SplitRevisionPair(UnitFilename(doc, n))[r + 1]
  IN  IF IsDirectory(doc) THEN NormalizeRelative(path) ELSE SingleFileName(path, r)

(* external: archive_reader --output-src, the source of a unit's revision    *)
ReadUnitRevision(doc, n, r) ==
  RenderUnitSources(doc, FileUnits(doc)[n], TRUE).source[r]

ExtractedFiles(doc) ==
  [n \in DOMAIN FileUnits(doc) |->
     [unit |-> n, filename |-> UnitFilename(doc, n),
      names |-> SplitRevisionPair(UnitFilename(doc, n)),
      source |-> [r \in ALL_REVISIONS |-> ReadUnitRevision(doc, n, r)]]]

(* What lies in the two revision directories: units are written in order, so *)
(* the last of a path stays.                                                 *)
ExtractedLayout(doc) ==
  LET units == DOMAIN FileUnits(doc)
      Written(r) == {n \in units : OutputPath(doc, n, r) # <<>>}
      LastAt(path, r) == Max({n \in Written(r) : OutputPath(doc, n, r) = path})
  IN  [r \in ALL_REVISIONS |->
         [path \in {OutputPath(doc, n, r) : n \in Written(r)} |->
            ReadUnitRevision(doc, LastAt(path, r), r)]]

(* A single file is one unit, or the extraction raises.                      *)
Extracts(doc) ==
  /\ IsDirectory(doc) \/ Len(FileUnits(doc)) = 1
  /\ FileUnits(doc) # <<>>
=============================================================================
