--------------------------- MODULE MCBackupRestore ---------------------------
(* Instances of BackupRestore for TLC. *)
EXTENDS BackupRestore

CONSTANT c1

\* One company with a key, a record and its tree head.
InUse ==
  [[t \in Tables |-> {}] EXCEPT
    !["companies"] = {Row(c1, c1, 0)},
    !["keys"] = {Row(c1, c1, 1)},
    !["records"] = {Row(<<c1, 1>>, c1, [key |-> 1, payload |-> 0])},
    !["ca_key"] = {Row(1, 1, 2)},
    !["signed_tree_heads"] = {Row(<<c1, 1>>, c1, 2)}]

UsedDatabase == {InUse}
=============================================================================
