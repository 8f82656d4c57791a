--------------------------- MODULE RecordDatabase ---------------------------
(***************************************************************************)
(* The "records" LMDB database of a dozer cache                            *)
(* (src/dozer-cache/src/cache/lmdb/cache/record_database.rs).              *)
(*                                                                         *)
(* The database maps an 8-byte surrogate id to a serialized record.  The   *)
(* id of a new record is the database's current number of entries         *)
(* (lmdb_stat(..).ms_entries), and the record is written with             *)
(* NO_OVERWRITE, so the put fails when that id is still live.  Ids are    *)
(* modelled by the naturals they encode (u64::to_be_bytes is injective), *)
(* records by whatever the user of this module stores.                    *)
(*                                                                         *)
(* The operators take the database as an argument, so that a caller can   *)
(* apply them to an intermediate state inside one transaction (the        *)
(* cache's update deletes and then inserts); InsertRecord and              *)
(* DeleteRecord are the same operations as actions on the variable.      *)
(***************************************************************************)
EXTENDS Naturals, FiniteSets

VARIABLE records   \* the live entries: a function from ids to records

(* The id RecordDatabase::insert gives the next record: the number of     *)
(* live entries of db.                                                     *)
NewRecordId(db) == Cardinality(DOMAIN db)

(* The NO_OVERWRITE put succeeds only if no live entry has that id.        *)
CanInsertRecord(db) == NewRecordId(db) \notin DOMAIN db

(* db after a successful put of rec under id.                              *)
PutRecord(db, id, rec) ==
    [i \in DOMAIN db \cup {id} |-> IF i = id THEN rec ELSE db[i]]

(* RecordDatabase::get (helper::get): the record stored under id, found  *)
(* when id is live and NotFound otherwise.                                *)
RecordFound(db, id) == id \in DOMAIN db
GetRecord(db, id) == db[id]

(* Mutant: the del is not applied (its error swallowed, or the wrong id).  *)
RemoveRecordKeepsEntry(db, id) == db

(* db after RecordDatabase::delete of id (txn.del of one key).              *)
RemoveRecord(db, id) == [i \in DOMAIN db \ {id} |-> db[i]]

(* RecordDatabase::insert as an action: enabled only when the put         *)
(* succeeds; a caller models the failure by the negation of the guard.    *)
InsertRecord(rec) ==
    /\ CanInsertRecord(records)
    /\ records' = PutRecord(records, NewRecordId(records), rec)

(* RecordDatabase::delete as an action.                                    *)
DeleteRecord(id) ==
    /\ id \in DOMAIN records
    /\ records' = RemoveRecord(records, id)

(* test_record_database, up to its delete: the first record inserted into *)
(* a new, empty database gets id 0 and get returns it.  The operators     *)
(* above agree with the code's own test.                                  *)
TestRecordDatabase(rec) ==
    LET new == [i \in {} |-> rec]
        db == PutRecord(new, NewRecordId(new), rec)
    IN /\ CanInsertRecord(new)
       /\ NewRecordId(new) = 0
       /\ RecordFound(db, 0) /\ GetRecord(db, 0) = rec

ASSUME RecordDatabaseTest == TestRecordDatabase("record")

=============================================================================
