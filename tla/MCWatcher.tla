----------------------------- MODULE MCWatcher -----------------------------
(* The file watcher for TLC.  a's directory is lib; b's is sub, which lies in *)
(* lib, and b shares lib: two ways to the same directory.  deep lies in sub, *)
(* and b ignores it.                                                       *)
EXTENDS Watcher

CONSTANTS a, b, lib, sub, deep

Tree == [d \in Dirs |-> CASE d = deep -> sub [] d = sub -> lib [] OTHER -> None]
Own == [s \in Services |-> IF s = a THEN lib ELSE sub]
BSharesLib == [s \in Services |-> IF s = b THEN {lib} ELSE {}]
BSkipsDeep == [s \in Services |-> IF s = b THEN {deep} ELSE {}]

=============================================================================
