---------------------------- MODULE ConcernStores ----------------------------
(***************************************************************************)
(* The two concern stores (opencoat_runtime_storage/memory and sqlite      *)
(* concern_store.py).  The memory store is a Python dict, so a sequence in *)
(* insertion order; the sqlite store is a table of rows [seq, c], whose    *)
(* order is rebuilt from seq, and a side table of <<concern id, tag>>.     *)
(* Every operation runs under the store's lock (and, in sqlite, in one     *)
(* transaction), so it is one step.  A row is JSON: reading it validates   *)
(* the concern again, which the memory store's model_copy does not.        *)
(***************************************************************************)
EXTENDS Surfaces

Index(mem, id) == LET hits == {i \in DOMAIN mem : mem[i].id = id}
                  IN  IF hits = {} THEN 0 ELSE CHOOSE i \in hits : TRUE

\* An update keeps the key's place in the dict.
MemUpsert(mem, c) ==
  IF Index(mem, c.id) = 0 THEN Append(mem, c) ELSE [mem EXCEPT ![Index(mem, c.id)] = c]

MemDelete(mem, id) == SelectSeq(mem, LAMBDA c : c.id # id)

\* Python's lower() folds every capital, sqlite's LOWER() and LIKE those of ASCII alone:
\* "Omega" stands for a word with another one.
Fold == [Alpha |-> "alpha", Beta |-> "beta", Omega |-> "omega"]
AsciiFold == [Alpha |-> "alpha", Beta |-> "beta"]
py_lower(w) == IF w \in DOMAIN Fold THEN Fold[w] ELSE w
sqlite_lower(w) == IF w \in DOMAIN AsciiFold THEN AsciiFold[w] ELSE w

\* The text that is searched, word by word: a query is a word.
SearchedText(c) == {c.name} \cup ToSet(c.desc)

Passes(c, flt) == /\ flt.kind # None => c.kind = flt.kind
                  /\ flt.state # None => c.state = flt.state
                  /\ flt.tag # None => flt.tag \in ToSet(c.tags)

Limited(s, limit) == IF limit = None THEN s ELSE SubSeq(s, 1, Min({Len(s), Max({0, limit})}))

MemList(mem, flt) == Limited(SelectSeq(mem, LAMBDA c : Passes(c, flt)), flt.limit)

MemSearch(mem, query, limit) ==
  Limited(SelectSeq(mem, LAMBDA c : py_lower(query) \in {py_lower(w) : w \in SearchedText(c)}), limit)

-----------------------------------------------------------------------------
SqlEmpty == [rows |-> {}, tags |-> {}]

SqlUpsertReplaced(db, c) ==
  [rows |-> {r \in db.rows : r.c.id # c.id}
              \cup {[seq |-> Max({0} \cup {r.seq : r \in db.rows}) + 1, c |-> c]},
   tags |-> {t \in db.tags : t[1] # c.id} \cup {<<c.id, g>> : g \in ToSet(c.tags)}]

\* An update keeps the row's seq; the tag rows are dropped and written anew.
SqlUpsert(db, c) ==
  LET old == {r \in db.rows : r.c.id = c.id}
      seq == IF old # {} THEN (CHOOSE r \in old : TRUE).seq
             ELSE Max({0} \cup {r.seq : r \in db.rows}) + 1
  IN  [rows |-> (db.rows \ old) \cup {[seq |-> seq, c |-> c]},
       tags |-> {t \in db.tags : t[1] # c.id} \cup {<<c.id, g>> : g \in ToSet(c.tags)}]

\* The tag rows go with the concern (ON DELETE CASCADE).
SqlDelete(db, id) == [rows |-> {r \in db.rows : r.c.id # id},
                      tags |-> {t \in db.tags : t[1] # id}]

_from_row(r) == _sync_aop_executable_shape(r.c)

Ordered(rows) ==
  LET s == SetToSortSeq(rows, LAMBDA q, r : q.seq < r.seq)
  IN  [i \in DOMAIN s |-> _from_row(s[i])]

SqlIterAll(db) == Ordered(db.rows)

SqlList(db, flt) ==
  Limited(Ordered({r \in db.rows : /\ flt.kind # None => r.c.kind = flt.kind
                                   /\ flt.state # None => r.c.state = flt.state
                                   /\ flt.tag # None => <<r.c.id, flt.tag>> \in db.tags}),
          flt.limit)

SqlSearch(db, query, limit) ==
  Limited(Ordered({r \in db.rows : py_lower(query) \in {sqlite_lower(w) : w \in SearchedText(r.c)}}), limit)
=============================================================================
