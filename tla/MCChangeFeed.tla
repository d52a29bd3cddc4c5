---------------------------- MODULE MCChangeFeed ----------------------------
(* Instances of ChangeFeed for TLC.                                          *)
EXTENDS ChangeFeed

(* All that the guards and the properties about records and caches read.     *)
SchemaView == <<db, caches, queue, task, got, sub, moved, blind, faults, raced, spoiled>>

============================================================================
