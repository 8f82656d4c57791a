------------------------------- MODULE Cache -------------------------------
(***************************************************************************)
(* The write side of a dozer LMDB cache for a schema with a primary key:   *)
(* the record database (module RecordDatabase, from the source) and the    *)
(* primary-key database that maps a key to the surrogate id of its        *)
(* record.  Both live in the cache's one open write transaction.  The     *)
(* cache's own code is not among the repository's sources; its operations *)
(* follow the spec (section 4.5): insert checks the key and then stores   *)
(* through the record database; update looks the key up, deletes the     *)
(* old record and inserts the new one under the next version; delete      *)
(* removes the record and the key.  Secondary indexes are not modelled    *)
(* here.                                                                   *)
(*                                                                         *)
(* Each operation is split into the update of (records, pkIndex) it makes *)
(* when it succeeds and the condition under which it fails, because the   *)
(* caller (the sink) reacts to the error.  An update fails AFTER its      *)
(* delete when the insert half fails: the delete stays in the open        *)
(* transaction (CacheUpdatePartial).                                       *)
(***************************************************************************)
EXTENDS RecordDatabase, Naturals

CONSTANTS
    Keys,    \* primary-key values of the endpoint's records
    Vals,    \* what a record holds besides its key
    Absent   \* what get returns for a key with no record (NotFound)

VARIABLE pkIndex   \* primary key -> surrogate id, in the open transaction

(* The version a record gets when it is first inserted.                    *)
InitialVersion == 1

(* A record as the cache stores it: key, contents and version.             *)
CacheRecord == [key : Keys, val : Vals, version : Nat]

(* idx with key k mapped to id, and with key k removed.                     *)
SetKey(idx, k, id) ==
    [x \in DOMAIN idx \cup {k} |-> IF x = k THEN id ELSE idx[x]]
DropKey(idx, k) == [x \in DOMAIN idx \ {k} |-> idx[x]]

(* Every key maps to a live record with that key, and every live record   *)
(* is the one its key maps to: the primary index is a bijection between  *)
(* the keys present and the live records.                                 *)
PkConsistent(db, idx) ==
    /\ \A k \in DOMAIN idx : idx[k] \in DOMAIN db /\ db[idx[k]].key = k
    /\ \A i \in DOMAIN db : db[i].key \in DOMAIN idx /\ idx[db[i].key] = i

(***************************************************************************)
(* insert(record): fails on a duplicate key, and when the record          *)
(* database's put fails (its next id is still live).                      *)
(***************************************************************************)
InsertFails(k) == k \in DOMAIN pkIndex \/ ~CanInsertRecord(records)

CacheInsert(k, v) ==
    LET id == NewRecordId(records) IN
    /\ ~InsertFails(k)
    /\ records' = PutRecord(records, id,
                            [key |-> k, val |-> v, version |-> InitialVersion])
    /\ pkIndex' = SetKey(pkIndex, k, id)

(***************************************************************************)
(* update(key, new): NotFound when key is absent.  Otherwise the old      *)
(* record and its key are deleted (the state AfterDelete) and the new     *)
(* record is inserted under version old + 1, which fails on a duplicate   *)
(* new key or a failed put; the old version is returned.                  *)
(***************************************************************************)
UpdateNotFound(k) == k \notin DOMAIN pkIndex

OldVersion(k) == records[pkIndex[k]].version

DbAfterDelete(k) == RemoveRecord(records, pkIndex[k])
IdxAfterDelete(k) == DropKey(pkIndex, k)

UpdateInsertFails(k, k2) ==
    k2 \in DOMAIN IdxAfterDelete(k) \/ ~CanInsertRecord(DbAfterDelete(k))

CacheUpdate(k, k2, v2) ==
    LET db == DbAfterDelete(k)
        id == NewRecordId(db)
    IN
    /\ ~UpdateNotFound(k)
    /\ ~UpdateInsertFails(k, k2)
    /\ records' = PutRecord(db, id,
                            [key |-> k2, val |-> v2, version |-> OldVersion(k) + 1])
    /\ pkIndex' = SetKey(IdxAfterDelete(k), k2, id)

CacheUpdatePartial(k, k2) ==
    /\ ~UpdateNotFound(k)
    /\ UpdateInsertFails(k, k2)
    /\ records' = DbAfterDelete(k)
    /\ pkIndex' = IdxAfterDelete(k)

(***************************************************************************)
(* delete(key): NotFound when key is absent; otherwise removes the record *)
(* and the key and returns the removed version.                           *)
(***************************************************************************)
DeleteNotFound(k) == k \notin DOMAIN pkIndex

(* Mutant: the record is deleted and its key left in the primary index.  *)
CacheDeleteKeepsKey(k) ==
    /\ ~DeleteNotFound(k)
    /\ records' = RemoveRecord(records, pkIndex[k])
    /\ pkIndex' = pkIndex

CacheDelete(k) ==
    /\ ~DeleteNotFound(k)
    /\ records' = RemoveRecord(records, pkIndex[k])
    /\ pkIndex' = DropKey(pkIndex, k)

(* What get(key) returns for every key: contents and version, or Absent.  *)
CacheView(db, idx) ==
    [k \in Keys |-> IF k \in DOMAIN idx
                      THEN [val |-> GetRecord(db, idx[k]).val,
                            version |-> GetRecord(db, idx[k]).version]
                      ELSE Absent]

(* The contents get(key) returns for every key, versions left out.       *)
CacheContents(db, idx) ==
    [k \in Keys |-> IF k \in DOMAIN idx THEN GetRecord(db, idx[k]).val ELSE Absent]

=============================================================================
