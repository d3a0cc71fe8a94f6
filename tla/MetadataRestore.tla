---------------------------- MODULE MetadataRestore ----------------------------
(* srcDiff run again for positions gives a document of its own: its units in *)
(* its order, its metadata.  The uploaded document's order and metadata are  *)
(* put back onto it before anything else reads it.                           *)
EXTENDS SrcDiffDocument

(* A file's name is a pair of paths, one for each revision, and a path is    *)
(* its directory and its last part; <<>> is no path. A plain name is a pair  *)
(* of one.                                                                   *)
LastPart(path) == IF path = <<>> THEN <<>> ELSE <<Last(path)>>

(* normalize_visualized_filename: directories are dropped, but from a pair   *)
(* of paths only.                                                            *)
NormalizeFilename(name) ==
  IF Len(name) = 1 THEN name ELSE [k \in DOMAIN name |-> LastPart(name[k])]

(* The units of `from` after the root of `doc`, in the order `units` names.  *)
Subtree(doc, unit) == Positions(doc, ElementsIn(doc, unit))

WithUnits(doc, units) ==
  LET Place(acc, els, el) == Len(acc) + CHOOSE p \in DOMAIN els : els[p] = el
      Add(acc, els) == acc \o [p \in DOMAIN els |-> [doc[els[p]] EXCEPT
                               !.parent = IF p = 1 THEN 1 ELSE Place(acc, els, @)]]
  IN  FoldLeft(LAMBDA acc, unit : Add(acc, Subtree(doc, unit)), <<doc[1]>>, units)

(* align_generated_units_to_original: of several units each has a name, and  *)
(* the last generated unit of a normalised name stands for every original of *)
(* that name.                                                                *)
GeneratedFor(generated, name) ==
  LET Same(unit) == NormalizeFilename(generated[unit].filename) = NormalizeFilename(name)
      LastOf(same) == IF same = <<>> THEN {} ELSE {Last(same)}
  IN  LastOf(SelectSeq(FileUnits(generated), Same))

OneUnit(original, generated) ==
  Len(FileUnits(original)) <= 1 \/ Len(FileUnits(generated)) <= 1

UnitsAreNamed(doc) == \A unit \in FileUnitsIn(doc) : doc[unit].filename # <<>>

Aligns(original, generated) ==
  \/ OneUnit(original, generated)
  \/ /\ UnitsAreNamed(original) /\ UnitsAreNamed(generated)
     /\ \A n \in DOMAIN FileUnits(original) :
          GeneratedFor(generated, original[FileUnits(original)[n]].filename) # {}

AlignedUnits(original, generated) ==
  [n \in DOMAIN FileUnits(original) |->
     CHOOSE unit \in GeneratedFor(generated,
                       original[FileUnits(original)[n]].filename) : TRUE]

\* Mutant: the units stay in the order srcDiff gave them.
AlignNothing(original, generated) == generated

AlignUnits(original, generated) ==
  IF OneUnit(original, generated) THEN generated
  ELSE WithUnits(generated, AlignedUnits(original, generated))

(* restore_metadata_attributes: all of an element's attributes are replaced, *)
(* those of its position excepted.                                           *)
RestoreAttributes(old, new) ==
  [new EXCEPT !.filename = old.filename, !.id = old.id, !.plain = old.plain,
              !.from = old.from, !.to = old.to]

(* restore_original_srcdiff_metadata, on the root and on every file unit.    *)
(* One generated unit aligned to two originals is one element twice: what    *)
(* is restored onto it last is restored onto both.                           *)
Restores(original, generated) ==
  /\ Aligns(original, generated)
  /\ Len(FileUnits(AlignUnits(original, generated))) = Len(FileUnits(original))

RestoreUnits(original, aligned, units, source) ==
  LET LastLike(n) == CHOOSE m \in DOMAIN units :
                    /\ source[m] = source[n]
                    /\ \A k \in DOMAIN units : source[k] = source[n] => k <= m
      Number(el) == CHOOSE n \in DOMAIN units : units[n] = el
      Old(el) == IF el \in ToSet(units)
                 THEN original[FileUnits(original)[LastLike(Number(el))]]
                 ELSE IF el = 1 THEN original[1] ELSE aligned[el]
  IN  [el \in DOMAIN aligned |-> RestoreAttributes(Old(el), aligned[el])]

RestoreMetadata(original, generated) ==
  LET Restored(aligned, units) ==
        RestoreUnits(original, aligned, units,
                     IF OneUnit(original, generated) THEN units
                     ELSE AlignedUnits(original, generated))
      With(aligned) == Restored(aligned, FileUnits(aligned))
  IN  With(AlignUnits(original, generated))
=============================================================================
