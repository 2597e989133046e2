------------------------------ MODULE MCArchiver ------------------------------
(* Small instances of Archiver for TLC: trees and the targets of their nodes. *)
EXTENDS Archiver

CONSTANTS root, child, osfstorage, addon

\* A registration with a component.
Tree2 == <<root, child>>
Parent2 == [n \in {child} |-> root]

\* OSF Storage only, as in most projects, or a second add-on on every node.
StorageOnly == [n \in Nodes |-> {osfstorage}]
TwoAddons   == [n \in Nodes |-> {osfstorage, addon}]
=============================================================================
