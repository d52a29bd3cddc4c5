---------------------------- MODULE ObjectStore ----------------------------
(***************************************************************************)
(* What the storage API promises about objects: one map from locations to   *)
(* contents, on which every request takes effect at once, at some moment    *)
(* before it is answered, or not at all.                                    *)
(***************************************************************************)
EXTENDS Naturals

CONSTANTS Reqs, Keys, Sizes, Ops, None

VARIABLES
    object,     \* the content a download of each location answers, or None
    call,       \* what each request asks for, None before it is issued
    answer      \* "none" until the request took effect or was refused

storeVars == <<object, call, answer>>

StoreInit ==
    /\ object \in [Keys -> [by : Keys, size : Sizes] \cup {None}]
    /\ call = [r \in Reqs |-> None]
    /\ answer = [r \in Reqs |-> "none"]

Call(r) ==
    /\ call[r] = None
    /\ \E j \in [op : Ops, src : Keys, dst : Keys] : call' = [call EXCEPT ![r] = j]
    /\ UNCHANGED <<object, answer>>

Stored(k, content) == object' = [object EXCEPT ![k] = content]

Effect(r) ==
    LET j == call[r] IN
    \/ /\ j.op \in {"upload", "upsert"}
       /\ j.op = "upload" => object[j.dst] = None
       /\ \E size \in Sizes : Stored(j.dst, [by |-> r, size |-> size])
    \/ /\ j.op = "copy"
       /\ object[j.src] # None /\ object[j.dst] = None
       /\ Stored(j.dst, object[j.src])
    \/ /\ j.op = "move"
       /\ object[j.src] # None /\ object[j.dst] = None
       /\ object' = [object EXCEPT ![j.src] = None, ![j.dst] = object[j.src]]
    \/ /\ j.op = "remove"
       /\ \E gone \in SUBSET {j.src, j.dst} :
            object' = [k \in Keys |-> IF k \in gone THEN None ELSE object[k]]

Serve(r) ==
    /\ call[r] # None /\ answer[r] = "none"
    /\ \/ Effect(r) /\ answer' = [answer EXCEPT ![r] = "ok"]
       \/ UNCHANGED object /\ answer' = [answer EXCEPT ![r] = "failed"]
    /\ UNCHANGED call

StoreNext == \E r \in Reqs : Call(r) \/ Serve(r)

StoreSpec == StoreInit /\ [][StoreNext]_storeVars

============================================================================
