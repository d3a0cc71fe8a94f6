------------------------------ MODULE Publication ------------------------------
(* The end of a build: a document's files are visualized, then published as  *)
(* an artifact.                                                              *)
EXTENDS StoredArtifact, AnnotatedTree

VARIABLES
  xml,         \* moved_srcdiff_xml, the document
  visualized,  \* its files with their trees
  artifact     \* what is published

publicationVars == <<xml, visualized, artifact>>

NoArtifact == <<>>

(* The shown files: trees and revision files, with the rendered sources and  *)
(* spans in them.                                                            *)
Visualized(doc, files, rendered) ==
  ApplyRenderedSourceSpans(
    BuildVisualizedFiles(doc, files, BuildTreeIndex(doc, TRUE).trees), rendered)

(* What is rendered of a document: a file for each of its units, in order.   *)
AreRendered(rendered, doc) ==
  /\ DOMAIN rendered = DOMAIN FileUnits(doc)
  /\ \A n \in DOMAIN rendered : rendered[n].file.unit = n

(* The publication of any document, whatever is rendered of it and whatever  *)
(* is stored beside its files.                                               *)
VisualizeAny ==
  /\ visualized = <<>>
  /\ \E doc, files, rendered :
       /\ IsDocument(doc) /\ AreRendered(rendered, doc)
       /\ xml' = doc
       /\ visualized' = Visualized(doc, files, rendered)
  /\ UNCHANGED artifact

PublishAny ==
  /\ visualized # <<>>
  /\ \E id, results, moves : artifact' = Stored(id, xml, results, moves, visualized)
  /\ UNCHANGED <<xml, visualized>>

PublicationInit == xml = <<>> /\ visualized = <<>> /\ artifact = NoArtifact

PublicationSpec ==
  PublicationInit /\ [][VisualizeAny \/ PublishAny]_publicationVars

-----------------------------------------------------------------------------
Published == artifact # NoArtifact

(* What is published: files in the order of their units, each with a tree    *)
(* whose nodes are in document order, or without one.                        *)
InDocumentOrder(tree) ==
  \A j, k \in DOMAIN tree : j < k => tree[j].xmlSpan[1] < tree[k].xmlSpan[1]

Publishable(files) ==
  /\ files \in Seq(ToSet(files))
  /\ \A n \in DOMAIN files : files[n].file.unit \in Nat
  /\ \A m, n \in DOMAIN files : m < n => files[m].file.unit < files[n].file.unit
  /\ \A n \in DOMAIN files : files[n].tree # <<>> =>
       /\ IsTree(files[n].tree) /\ InDocumentOrder(files[n].tree)
       /\ \A k \in DOMAIN files[n].tree :
            files[n].tree[k] = [files[n].tree[k] EXCEPT !.parent = @]

(* The files that are published are in order, each with a tree whose nodes   *)
(* are in document order, every parent the innermost node around its own;    *)
(* and a node's place in the XML is that of its own element's tags: the      *)
(* parser's numbering of paths and the tree's never drift apart.             *)
(* (xml_spans.py, tree_builder.py, validate_tree.py)                         *)
NodesStandInTheXml ==
  LET tags == Tags(xml)
      Stands(node, el) ==
        /\ tags[node.xmlSpan[1]] = [opens |-> TRUE, el |-> el]
        /\ tags[node.xmlSpan[2]] = [opens |-> FALSE, el |-> el]
      Shows(tree, walk) ==
        /\ DOMAIN tree = DOMAIN walk
        /\ \A k \in DOMAIN walk : tree[k].path = walk[k].path /\ Stands(tree[k], walk[k].el)
  IN  /\ Publishable(visualized)
      /\ visualized # <<>> => IsDocument(xml)
      /\ \A n \in DOMAIN visualized : Shows(visualized[n].tree, WalkUnit(xml, n, TRUE))

(* Reading an artifact back gives the files, sources and trees that were     *)
(* published, in their order, though the index keeps nodes by file and rank. *)
(* (artifacts/store.py: _append_node_records, _read_payload, _rebuild_trees) *)
IndexRebuildsTheTrees ==
  Published =>
    ReadPayload(artifact) =
      [n \in DOMAIN visualized |->
         [filename |-> visualized[n].file.filename,
          source |-> visualized[n].file.source,
          tree |-> visualized[n].tree]]
================================================================================
