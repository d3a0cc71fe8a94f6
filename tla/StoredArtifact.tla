---------------------------- MODULE StoredArtifact ----------------------------
(* A published visualization as it is stored: the annotated XML, the sources *)
(* of every file, the index of files and nodes, and the manifest; and how it *)
(* is read back.                                                             *)
EXTENDS NodeRows

ARTIFACT_SCHEMA_VERSION == 4

(* _build_file_id: a digest of names and sources stands for itself; a file   *)
(* like an earlier one is numbered from 2.                                   *)
FileIdentity(file) == <<file.filename, file.source>>

FileIds(files) ==
  [n \in DOMAIN files |->
     LET like == {m \in 1..n : FileIdentity(files[m].file) = FileIdentity(files[n].file)}
     IN  <<FileIdentity(files[n].file), Cardinality(like)>>]

(* _build_index_records: the nodes by path over all files.                   *)
NodeIdsByPath(nodes) ==
  FoldLeft(LAMBDA ids, node : (node.payload.path :> NodeId(node.file, node.ordinal)) @@ ids,
           <<>>, nodes)

BuildIndexRecords(files) ==
  LET Index(ids, nodes) ==
        [files |-> [n \in DOMAIN files |->
                      [id |-> ids[n], unit |-> files[n].file.unit,
                       filename |-> files[n].file.filename,
                       root |-> IF files[n].tree = <<>> THEN NoOrdinal ELSE 0]],
         nodes |-> nodes, nodeIds |-> NodeIdsByPath(nodes)]
      Records(ids) == [n \in DOMAIN files |-> NodeRecords(files[n].tree, ids[n])]
  IN  Index(FileIds(files), FlattenSeq(Records(FileIds(files))))

(* _write_artifact: what is put in the directory. A checksum stands for what *)
(* it sums.                                                                  *)
LineCount(source) == Len(LinesOf(source, {"n", "f"}))

StoredSources(entries, files) ==
  [fileId \in {f.id : f \in ToSet(entries)} |->
     files[CHOOSE n \in DOMAIN files : entries[n].id = fileId].file.source]

Stored(id, xml, results, moves, files) ==
  LET With(index, sources) ==
        [xml |-> xml, sources |-> sources,
         index |-> [id |-> id, schema |-> ARTIFACT_SCHEMA_VERSION, results |-> results,
                    files |-> index.files, nodes |-> index.nodes],
         manifest |-> [id |-> id, schema |-> ARTIFACT_SCHEMA_VERSION,
           fileCount |-> Len(files), nodeCount |-> Len(index.nodes),
           files |-> [n \in DOMAIN files |->
             [id |-> index.files[n].id,
              root |-> IF index.files[n].root = NoOrdinal THEN <<>>
                       ELSE NodeId(index.files[n].id, index.files[n].root),
              lines |-> [r \in ALL_REVISIONS |-> LineCount(files[n].file.source[r])]]],
           moves |-> moves,
           sums |-> <<xml, sources>>]]
      On(index) == With(index, StoredSources(index.files, files))
  IN  On(BuildIndexRecords(files))

-----------------------------------------------------------------------------
RowOf(rows, ordinal) == CHOOSE r \in rows : r.ordinal = ordinal

(* _rebuild_trees: a node's children are the rows that name it, by sibling.  *)
(* A tree is met from its root down, here as the ordinals under each node.   *)
DocumentOrder(rows) ==
  LET met[o \in {r.ordinal : r \in rows}] ==
        <<o>> \o FlattenSeq([k \in DOMAIN ChildrenAmong(rows, o) |->
                               met[ChildrenAmong(rows, o)[k].ordinal]])
  IN  met

RebuiltTree(rows, root) ==
  LET Place(order, o) == CHOOSE k \in DOMAIN order : order[k] = o
      Tree(order) ==
        [k \in DOMAIN order |->
           [RowOf(rows, order[k]).payload EXCEPT
              !.parent = IF k = 1 THEN 0
                         ELSE Place(order, RowOf(rows, order[k]).parent)]]
  IN  Tree(DocumentOrder(rows)[root])

(* _read_payload: the files as read back, their trees in document order.     *)
ReadPayload(artifact) ==
  LET files == Sorted(ToSet(artifact.index.files),
                      LAMBDA f, g : f.unit < g.unit)
      RowsOfFile(id) == {r \in ToSet(artifact.index.nodes) : r.file = id}
  IN  [k \in DOMAIN files |->
         [filename |-> files[k].filename,
          source |-> artifact.sources[files[k].id],
          tree |-> IF files[k].root = NoOrdinal THEN <<>>
                   ELSE RebuiltTree(RowsOfFile(files[k].id), files[k].root)]]
==============================================================================
