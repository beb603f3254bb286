----------------------- MODULE DeviceLifecycleProofs ------------------------
(***************************************************************************)
(* Theorems about DeviceLifecycle.  The inductive invariant has three      *)
(* parts: types and what a request holds at which point (TInv);  what a    *)
(* request knows of a revocation (Told); and, while there was no mishap,   *)
(* how the requests in the function, the rows, the events and the keys     *)
(* agree (Kept).  That a request deletes no row that is bound stands apart *)
(* (MoversFound): it lasts until the administrator deletes a row.          *)
(***************************************************************************)
EXTENDS DeviceLifecycle, FiniteSetTheorems, TLAPS

-----------------------------------------------------------------------------
(* The invariant.                                                          *)

Request == [pc : Pc, token : Token \cup {None}, guid : BOOLEAN, bye : BOOLEAN,
            wrapped : 0 .. MaxKid, events : 0 .. MaxKid, dev : Token \cup {None},
            other : Token \cup {None}, revoked : BOOLEAN, keys : SUBSET Kid,
            enc : BOOLEAN, early : BOOLEAN]

Working == {"lookup", "continuity", "drop", "put", "bind", "serve", "record"}

\* What a request holds at which point.
Placed(q) ==
    /\ q.pc = "free" => q = FreeReq
    /\ q.pc \in Working => q.token \in Token
    /\ q.pc = "lookup" => q.guid = ~q.bye
    /\ q.pc \in Working \ {"lookup"} => q.dev \in Token
    /\ q.pc \in {"drop", "put"} => q.other \in Token
    /\ q.bye => q.pc \in {"lookup", "serve"}

\* The devices table and its unique indexes.
RowsOK ==
    /\ rows \in [Token -> Row \cup {None}]
    /\ \A q, r \in Token : Exists(q) /\ Exists(r) /\ rows[q].token = rows[r].token => q = r
    /\ \A q, r \in Bound : q = r

\* Generations are numbered as they come.
RequestOK(q) == q \in Request /\ Placed(q) /\ q.wrapped <= kids /\ q.events <= kids

RequestsOK == req \in [Slot -> Request] /\ \A s \in Slot : RequestOK(req[s])

CollOK ==
    /\ coll \in Life
    /\ coll.dek <= kids
    /\ coll.fails < AuthFailMax
    /\ coll.wrapped => coll.dek # 0

MachineOK ==
    /\ kids \in 0 .. MaxKid
    /\ (config \in Config /\ config.dek <= kids) \/ config \in {None, Torn}
    /\ coll = None \/ CollOK

\* The collector waits for a request of its own.
WaitOK == coll # None /\ coll.wait # None => req[coll.wait].pc # "free" /\ ~req[coll.wait].bye

RestOK ==
    /\ ownerKey \in BOOLEAN
    /\ stored \subseteq [dev : Token, kid : 1 .. kids]
    /\ leaving \in {"no", "sent"}
    /\ purged \subseteq Token /\ spent \subseteq Token /\ dropped \subseteq Kid
    /\ mishap \in BOOLEAN

TInv == RowsOK /\ RequestsOK /\ MachineOK /\ WaitOK /\ RestOK

\* A request that passes the mark of a revoked row by had looked at the row before.
Told ==
    \A s \in Slot :
        LET q == req[s] IN
        /\ q.pc \in {"continuity", "bind", "serve"} /\ Exists(q.dev) /\ Blocked(q.dev)
              => q.revoked \/ q.early
        /\ q.pc \in {"drop", "put"} /\ Exists(q.other) /\ Blocked(q.other) => q.early

\* The row that has the token t.
Has(r, t) == Exists(r) /\ rows[r].token = t

\* Requests at work at a time are about one token, and record one key.
OneLife ==
    \A s, u \in Busy :
        /\ req[s].token = req[u].token
        /\ req[s].wrapped # 0 /\ req[u].wrapped # 0 => req[s].wrapped = req[u].wrapped

\* Before it serves, a request is about the row with its token; that row is gone
\* when another request is moving, or has moved, the token to the row of the machine.
Moved(t) ==
    \/ \E b \in Bound : Has(b, t)
    \/ /\ \A r \in Token : ~Has(r, t)
       /\ \E s \in Slot : req[s].pc = "put" /\ req[s].other \in Bound

RowRead(q) ==
    /\ q.pc \in {"continuity", "drop", "put"} /\ Exists(q.dev) => Has(q.dev, q.token)
    /\ q.pc = "continuity" /\ ~Exists(q.dev) => Moved(q.token)
    /\ q.pc \in {"drop", "put"} => q.other \in Bound /\ q.other # q.dev
    /\ q.pc \in {"bind", "serve", "record"} /\ ~q.bye =>
          /\ Bound \subseteq {q.dev}
          /\ Has(q.dev, q.token) \/ q.dev \in Bound

\* The keys it has read are the row's, but for the one it brings.
Target(q) == IF q.pc \in {"drop", "put"} THEN q.other ELSE q.dev

KeysRead(q) ==
    q.pc \in Working \ {"lookup"} /\ ~q.bye /\ Exists(Target(q)) =>
        /\ q.keys \subseteq rows[Target(q)].keys
        /\ q.wrapped # 0 => rows[Target(q)].keys \subseteq q.keys \cup {q.wrapped}

\* A key is in config.json, or with the row of the machine, or was dropped.
Held(k) ==
    \/ config \in Config /\ config.dek = k
    \/ \E r \in Bound : k \in rows[r].keys
    \/ k \in dropped

TokenAlive ==
    \A t \in Token :
        \/ \E r \in Token : Has(r, t)
        \/ \E s \in Slot : req[s].pc = "put" /\ req[s].token = t
        \/ t \in spent

EventsPlaced ==
    \A e \in stored :
        /\ Exists(e.dev) \/ e.dev \in purged
        /\ Exists(e.dev) => Bound \subseteq {e.dev}

KeysHeld ==
    /\ \A r \in Token : Exists(r) /\ rows[r].keys # {} => rows[r].guid
    /\ \A e \in stored : Held(e.kid)
    /\ \A s \in Busy : req[s].events # 0 => Held(req[s].events)
    /\ coll # None /\ coll.dek # 0 => Held(coll.dek)
    /\ coll # None => config # None
    /\ coll # None /\ coll.dek = 0 /\ config \in Config => config.dek = 0

RequestsFit == \A s \in Slot : RowRead(req[s]) /\ KeysRead(req[s])

Fits == OneLife /\ RequestsFit /\ TokenAlive /\ EventsPlaced /\ KeysHeld

Kept == ~mishap => Fits

IInv == TInv /\ Told /\ Kept

-----------------------------------------------------------------------------
(* Records with some fields set anew.                                      *)

\* A request stays one when a field is set.
LEMMA FieldSet ==
    ASSUME NEW q \in Request
    PROVE  /\ \A x \in Pc : [q EXCEPT !.pc = x] \in Request
           /\ \A x \in Token \cup {None} : /\ [q EXCEPT !.dev = x] \in Request
                                           /\ [q EXCEPT !.other = x] \in Request
                                           /\ [q EXCEPT !.token = x] \in Request
           /\ \A x \in BOOLEAN : /\ [q EXCEPT !.revoked = x] \in Request
                                 /\ [q EXCEPT !.guid = x] \in Request
                                 /\ [q EXCEPT !.bye = x] \in Request
                                 /\ [q EXCEPT !.enc = x] \in Request
                                 /\ [q EXCEPT !.early = x] \in Request
           /\ \A x \in SUBSET Kid : [q EXCEPT !.keys = x] \in Request
           /\ \A x \in 0 .. MaxKid : /\ [q EXCEPT !.wrapped = x] \in Request
                                     /\ [q EXCEPT !.events = x] \in Request
BY SMT DEF Request

\* The updates of the handlers.
LEMMA ReadSet ==
    ASSUME NEW q \in Request, NEW pc \in Pc, NEW d \in Token, NEW r \in BOOLEAN,
           NEW ks \in SUBSET Kid
    PROVE  [q EXCEPT !.dev = d, !.revoked = r, !.keys = ks, !.pc = pc] \in Request
<1>1. [q EXCEPT !.dev = d] \in Request
  BY FieldSet
<1>2. [q EXCEPT !.dev = d, !.revoked = r] \in Request
  BY <1>1, FieldSet
<1>3. [q EXCEPT !.dev = d, !.revoked = r, !.keys = ks] \in Request
  BY <1>2, FieldSet
<1> QED
  BY <1>3, FieldSet

LEMMA DropSet ==
    ASSUME NEW q \in Request, NEW pc \in Pc, NEW r \in Token, NEW g \in BOOLEAN,
           NEW ks \in SUBSET Kid
    PROVE  [q EXCEPT !.pc = pc, !.other = r, !.guid = g, !.keys = ks] \in Request
<1>1. [q EXCEPT !.pc = pc] \in Request
  BY FieldSet
<1>2. [q EXCEPT !.pc = pc, !.other = r] \in Request
  BY <1>1, FieldSet
<1>3. [q EXCEPT !.pc = pc, !.other = r, !.guid = g] \in Request
  BY <1>2, FieldSet
<1> QED
  BY <1>3, FieldSet

LEMMA GuidSet ==
    ASSUME NEW q \in Request, NEW pc \in Pc, NEW g \in BOOLEAN
    PROVE  [q EXCEPT !.pc = pc, !.guid = g] \in Request
<1>1. [q EXCEPT !.pc = pc] \in Request
  BY FieldSet
<1> QED
  BY <1>1, FieldSet

LEMMA PutSet ==
    ASSUME NEW q \in Request, NEW pc \in Pc, NEW d \in Token, NEW r \in BOOLEAN
    PROVE  [q EXCEPT !.pc = pc, !.dev = d, !.revoked = r] \in Request
<1>1. [q EXCEPT !.pc = pc] \in Request
  BY FieldSet
<1>2. [q EXCEPT !.pc = pc, !.dev = d] \in Request
  BY <1>1, FieldSet
<1> QED
  BY <1>2, FieldSet

LEMMA ServeSet ==
    ASSUME NEW q \in Request, NEW pc \in Pc, NEW e \in BOOLEAN, NEW r \in BOOLEAN
    PROVE  [q EXCEPT !.pc = pc, !.enc = e, !.other = None, !.events = 0, !.early = r] \in Request
<1>1. [q EXCEPT !.pc = pc] \in Request
  BY FieldSet
<1>2. [q EXCEPT !.pc = pc, !.enc = e] \in Request
  BY <1>1, FieldSet
<1>3. [q EXCEPT !.pc = pc, !.enc = e, !.other = None] \in Request
  BY <1>2, FieldSet
<1>4. [q EXCEPT !.pc = pc, !.enc = e, !.other = None, !.events = 0] \in Request
  <2>1. 0 \in 0 .. MaxKid
    BY LifecycleAssumption
  <2> QED
    BY <1>3, <2>1, FieldSet
<1> QED
  BY <1>4, FieldSet

LEMMA SendSet ==
    ASSUME NEW q \in Request, NEW t \in Token, NEW g \in BOOLEAN, NEW b \in BOOLEAN,
           NEW w \in 0 .. MaxKid, NEW e \in 0 .. MaxKid
    PROVE  [q EXCEPT !.pc = "lookup", !.token = t, !.guid = g, !.bye = b, !.wrapped = w,
                     !.events = e] \in Request
<1>1. [q EXCEPT !.pc = "lookup"] \in Request
  BY FieldSet DEF Pc
<1>2. [q EXCEPT !.pc = "lookup", !.token = t] \in Request
  BY <1>1, FieldSet
<1>3. [q EXCEPT !.pc = "lookup", !.token = t, !.guid = g] \in Request
  BY <1>2, FieldSet
<1>4. [q EXCEPT !.pc = "lookup", !.token = t, !.guid = g, !.bye = b] \in Request
  BY <1>3, FieldSet
<1>5. [q EXCEPT !.pc = "lookup", !.token = t, !.guid = g, !.bye = b, !.wrapped = w] \in Request
  BY <1>4, FieldSet
<1> QED
  BY <1>5, FieldSet

\* The request nobody has sent, and an answer somebody waits for.
LEMMA FreeFits ==
    ASSUME kids \in Nat
    PROVE  /\ RequestOK(FreeReq)
           /\ \A st \in {"ok", "401", "error"}, e \in BOOLEAN :
                 /\ RequestOK([FreeReq EXCEPT !.pc = st, !.enc = e])
                 /\ ~[FreeReq EXCEPT !.pc = st, !.enc = e].bye
                 /\ [FreeReq EXCEPT !.pc = st, !.enc = e].pc = st
<1>1. FreeReq \in Request
  BY LifecycleAssumption, SMT DEF Request, FreeReq, Pc, Kid
<1>2. RequestOK(FreeReq)
  BY <1>1, SMT DEF RequestOK, FreeReq, Placed, Working
<1>3. ASSUME NEW st \in {"ok", "401", "error"}, NEW e \in BOOLEAN
      PROVE  /\ RequestOK([FreeReq EXCEPT !.pc = st, !.enc = e])
             /\ ~[FreeReq EXCEPT !.pc = st, !.enc = e].bye
             /\ [FreeReq EXCEPT !.pc = st, !.enc = e].pc = st
  <2>1. [FreeReq EXCEPT !.pc = st] \in Request
    BY <1>1, FieldSet DEF Pc
  <2>2. [FreeReq EXCEPT !.pc = st, !.enc = e] \in Request
    BY <2>1, FieldSet
  <2>3. FreeReq.wrapped = 0 /\ FreeReq.events = 0 /\ ~FreeReq.bye
    BY DEF FreeReq
  <2>4. LET q == [FreeReq EXCEPT !.pc = st, !.enc = e]
        IN  q.pc = st /\ q.wrapped = 0 /\ q.events = 0 /\ ~q.bye
    BY <1>1, <2>3, SMT DEF Request
  <2> QED
    BY <2>2, <2>4, SMT DEF RequestOK, Placed, Working
<1> QED
  BY <1>2, <1>3

\* A row stays one.
LEMMA RowSet ==
    ASSUME NEW r \in Row
    PROVE  /\ \A t \in Token, x, y \in BOOLEAN :
                 [r EXCEPT !.token = t, !.gone = x, !.revoked = y] \in Row
           /\ \A x, y \in BOOLEAN : [r EXCEPT !.gone = x, !.revoked = y] \in Row
           /\ \A x \in BOOLEAN : [r EXCEPT !.revoked = x] \in Row /\ [r EXCEPT !.guid = x] \in Row
           /\ \A x \in BOOLEAN, ks \in SUBSET Kid : [r EXCEPT !.guid = x, !.keys = ks] \in Row
<1>1. /\ \A t \in Token : [r EXCEPT !.token = t] \in Row
      /\ \A x \in BOOLEAN : /\ [r EXCEPT !.gone = x] \in Row
                            /\ [r EXCEPT !.revoked = x] \in Row
                            /\ [r EXCEPT !.guid = x] \in Row
  BY SMT DEF Row
<1>2. ASSUME NEW q \in Row, NEW x \in BOOLEAN
      PROVE  [q EXCEPT !.gone = x] \in Row /\ [q EXCEPT !.revoked = x] \in Row
  BY SMT DEF Row
<1>3. ASSUME NEW q \in Row, NEW ks \in SUBSET Kid PROVE [q EXCEPT !.keys = ks] \in Row
  BY SMT DEF Row
<1>4. ASSUME NEW x \in BOOLEAN, NEW y \in BOOLEAN PROVE [r EXCEPT !.gone = x, !.revoked = y] \in Row
  <2>1. [r EXCEPT !.gone = x] \in Row
    BY <1>1
  <2> QED
    BY <2>1, <1>2
<1>5. ASSUME NEW t \in Token, NEW x \in BOOLEAN, NEW y \in BOOLEAN
      PROVE  [r EXCEPT !.token = t, !.gone = x, !.revoked = y] \in Row
  <2>1. [r EXCEPT !.token = t] \in Row
    BY <1>1
  <2>2. [r EXCEPT !.token = t, !.gone = x] \in Row
    BY <2>1, <1>2
  <2> QED
    BY <2>2, <1>2
<1>6. ASSUME NEW x \in BOOLEAN, NEW ks \in SUBSET Kid PROVE [r EXCEPT !.guid = x, !.keys = ks] \in Row
  <2>1. [r EXCEPT !.guid = x] \in Row
    BY <1>1
  <2> QED
    BY <2>1, <1>3
<1> QED
  BY <1>1, <1>4, <1>5, <1>6

-----------------------------------------------------------------------------
(* What each handler does to the request it serves.                        *)

\* The request s, and no other, has changed, into one that fits.
Only(s) ==
    /\ req' \in [Slot -> Request] /\ Placed(req'[s])
    /\ \A u \in Slot \ {s} : req'[u] = req[u]

\* It is still the same one.
Goes(s) ==
    /\ Only(s)
    /\ req'[s].token = req[s].token /\ req'[s].bye = req[s].bye
    /\ req'[s].wrapped = req[s].wrapped
    /\ req'[s].pc # "free"

\* It has been answered, or nobody was waiting for the answer.
Ended(s, status) ==
    /\ Only(s)
    /\ req'[s].pc \in {status, "free"} /\ ~req'[s].bye
    /\ req'[s].wrapped = 0 /\ req'[s].events = 0
    /\ Waited(s) => req'[s].pc = status

LEMMA SlotSet ==
    ASSUME TInv, NEW s \in Slot, NEW new \in Request, req' = [req EXCEPT ![s] = new]
    PROVE  /\ req' \in [Slot -> Request] /\ req'[s] = new
           /\ \A u \in Slot \ {s} : req'[u] = req[u]
BY SMT DEF TInv, RequestsOK

LEMMA ReplyDoes ==
    ASSUME TInv, NEW s \in Slot, NEW status \in {"ok", "401", "error"}, Reply(s, status)
    PROVE  Ended(s, status)
<1>1. kids \in Nat
  BY LifecycleAssumption DEF TInv, MachineOK
<1>2. req[s].enc \in BOOLEAN
  BY DEF TInv, RequestsOK, Request
<1>3. CASE Waited(s)
  <2> DEFINE new == [FreeReq EXCEPT !.pc = status, !.enc = req[s].enc]
  <2>1. new.pc = status /\ ~new.bye /\ RequestOK(new)
    BY <1>1, <1>2, FreeFits
  <2>2. new.wrapped = 0 /\ new.events = 0
    BY SMT DEF FreeReq
  <2>3. req' = [req EXCEPT ![s] = new]
    BY <1>3 DEF Reply
  <2> QED
    BY <1>3, <2>1, <2>2, <2>3, SlotSet DEF Ended, Only, RequestOK
<1>4. CASE ~Waited(s)
  <2>1. req' = [req EXCEPT ![s] = FreeReq]
    BY <1>4 DEF Reply
  <2>2. FreeReq.pc = "free" /\ ~FreeReq.bye /\ FreeReq.wrapped = 0 /\ FreeReq.events = 0
    BY DEF FreeReq
  <2>3. RequestOK(FreeReq)
    BY <1>1, FreeFits
  <2> QED
    BY <1>4, <2>1, <2>2, <2>3, SlotSet DEF Ended, Only, RequestOK
<1> QED
  BY <1>3, <1>4

LEMMA AuthenticateDoes ==
    ASSUME TInv, NEW s \in Slot, Authenticate(s)
    PROVE  /\ req[s].pc = "lookup"
           /\ \/ Ended(s, "401")
              \/ /\ Goes(s) /\ Has(req'[s].dev, req[s].token)
                 /\ req'[s].revoked = rows[req'[s].dev].revoked
                 /\ req'[s].keys = rows[req'[s].dev].keys
                 /\ req'[s].events = req[s].events
                 /\ req'[s].pc = IF req[s].bye THEN "serve" ELSE "continuity"
<1> DEFINE mine == {r \in Token : rows[r] # None /\ rows[r].token = req[s].token}
           d == CHOOSE r \in mine : TRUE
           new == [req[s] EXCEPT !.dev = d, !.revoked = rows[d].revoked, !.keys = rows[d].keys,
                                 !.pc = IF req[s].guid THEN "continuity" ELSE "serve"]
<1>1. req[s].pc = "lookup"
  BY DEF Authenticate
<1>2. CASE mine = {}
  <2>1. Reply(s, "401")
    BY <1>2 DEF Authenticate
  <2> QED
    BY <1>1, <2>1, ReplyDoes
<1>3. CASE mine # {}
  <2>1. d \in Token /\ rows[d] # None /\ rows[d].token = req[s].token
    <3>1. d \in mine
      BY <1>3
    <3> QED
      BY <3>1
  <2>2. rows[d] \in Row
    BY <2>1 DEF TInv, RowsOK
  <2>3. rows[d].revoked \in BOOLEAN /\ rows[d].keys \in SUBSET Kid
    BY <2>2 DEF Row
  <2>4. req[s] \in Request /\ Placed(req[s])
    BY DEF TInv, RequestsOK, RequestOK
  <2>5. req' = [req EXCEPT ![s] = new]
    BY <1>3 DEF Authenticate
  <2> HIDE DEF d
  <2>6. new \in Request
    BY <2>1, <2>3, <2>4, ReadSet DEF Pc
  <2>7. /\ new.dev = d /\ new.revoked = rows[d].revoked /\ new.keys = rows[d].keys
        /\ new.token = req[s].token /\ new.bye = req[s].bye /\ new.wrapped = req[s].wrapped
        /\ new.events = req[s].events /\ new.guid = req[s].guid
        /\ new.pc = IF req[s].guid THEN "continuity" ELSE "serve"
    BY <2>4, SMT DEF Request
  <2>8. new.pc = IF req[s].bye THEN "serve" ELSE "continuity"
    BY <1>1, <2>4, <2>7 DEF Placed, Request
  <2> HIDE DEF new
  <2>9. Placed(new)
    BY <1>1, <2>1, <2>4, <2>7, <2>8 DEF Placed, Working
  <2>10. req'[s] = new
    BY <2>5, <2>6, SlotSet
  <2>11. Goes(s)
    BY <2>5, <2>6, <2>7, <2>8, <2>9, <2>10, SlotSet DEF Goes, Only
  <2>12. Has(req'[s].dev, req[s].token)
    BY <2>1, <2>7, <2>10, LifecycleAssumption DEF Has, Exists
  <2> QED
    BY <1>1, <2>7, <2>8, <2>10, <2>11, <2>12
<1> QED
  BY <1>2, <1>3
LEMMA ContinuityDoes ==
    ASSUME TInv, NEW s \in Slot, Continuity(s)
    PROVE  /\ req[s].pc = "continuity"
           /\ \/ Ended(s, "401")
              \/ /\ Goes(s) /\ req'[s].pc = "drop"
                 /\ req'[s].other \in Found(s) /\ ~Blocked(req'[s].other)
                 /\ req'[s].keys = rows[req'[s].other].keys
                 /\ req'[s].dev = req[s].dev /\ req'[s].events = req[s].events
              \/ /\ Goes(s) /\ Found(s) = {}
                 /\ req'[s].pc \in {"serve", "bind"}
                 /\ req'[s].dev = req[s].dev /\ req'[s].events = req[s].events
                 /\ req'[s].keys = req[s].keys
                 /\ req'[s].revoked = req[s].revoked /\ req'[s].early = req[s].early
<1>1. req[s].pc = "continuity"
  BY DEF Continuity
<1>2. req[s] \in Request /\ Placed(req[s])
  BY DEF TInv, RequestsOK, RequestOK
<1>3. req[s].dev \in Token /\ req[s].token \in Token /\ ~req[s].bye
  BY <1>1, <1>2, SMT DEF Placed, Working
<1>4. ASSUME NEW r \in Found(s), Blocked(r), Reply(s, "401") PROVE Ended(s, "401")
  BY <1>4, ReplyDoes
<1>5. ASSUME NEW r \in Found(s), ~Blocked(r),
             req' = [req EXCEPT ![s] = [@ EXCEPT !.pc = "drop", !.other = r, !.guid = FALSE,
                                                 !.keys = rows[r].keys]]
      PROVE  /\ Goes(s) /\ req'[s].pc = "drop" /\ req'[s].other = r
             /\ req'[s].keys = rows[r].keys
             /\ req'[s].dev = req[s].dev /\ req'[s].events = req[s].events
  <2> DEFINE new == [req[s] EXCEPT !.pc = "drop", !.other = r, !.guid = FALSE,
                                   !.keys = rows[r].keys]
  <2>1. r \in Token /\ rows[r] # None
    BY DEF Found, Bound
  <2>2. rows[r].keys \in SUBSET Kid
    BY <2>1 DEF TInv, RowsOK, Row
  <2>3. new \in Request
    BY <1>2, <2>1, <2>2, DropSet DEF Pc
  <2>4. /\ new.pc = "drop" /\ new.other = r /\ new.keys = rows[r].keys
        /\ new.dev = req[s].dev /\ new.token = req[s].token /\ new.bye = req[s].bye
        /\ new.wrapped = req[s].wrapped /\ new.events = req[s].events
    BY <1>2, SMT DEF Request
  <2>5. req' = [req EXCEPT ![s] = new]
    BY <1>5
  <2> HIDE DEF new
  <2>6. Placed(new)
    BY <1>3, <2>1, <2>4 DEF Placed, Working
  <2> QED
    BY <2>3, <2>4, <2>5, <2>6, SlotSet DEF Goes, Only
<1>6. ASSUME Found(s) = {},
             req' = [req EXCEPT ![s] = [@ EXCEPT !.pc = IF req[s].dev \in Bound THEN "serve" ELSE "bind",
                                                 !.guid = FALSE]]
      PROVE  /\ Goes(s) /\ req'[s].pc \in {"serve", "bind"}
             /\ req'[s].dev = req[s].dev /\ req'[s].events = req[s].events
             /\ req'[s].keys = req[s].keys
             /\ req'[s].revoked = req[s].revoked /\ req'[s].early = req[s].early
  <2> DEFINE pc == IF req[s].dev \in Bound THEN "serve" ELSE "bind"
             new == [req[s] EXCEPT !.pc = pc, !.guid = FALSE]
  <2>1. pc \in {"serve", "bind"}
    OBVIOUS
  <2>2. req' = [req EXCEPT ![s] = new]
    BY <1>6
  <2> HIDE DEF pc
  <2>3. new \in Request
    BY <1>2, <2>1, GuidSet DEF Pc
  <2>4. /\ new.pc = pc /\ new.keys = req[s].keys
        /\ new.revoked = req[s].revoked /\ new.early = req[s].early
        /\ new.dev = req[s].dev /\ new.token = req[s].token /\ new.bye = req[s].bye
        /\ new.wrapped = req[s].wrapped /\ new.events = req[s].events
    BY <1>2, SMT DEF Request
  <2> HIDE DEF new
  <2>5. Placed(new)
    BY <1>3, <2>1, <2>4 DEF Placed, Working
  <2> QED
    BY <2>1, <2>2, <2>3, <2>4, <2>5, SlotSet DEF Goes, Only
<1> QED
  <2>1. CASE Found(s) # {} /\ \E r \in Found(s) :
                IF Blocked(r) THEN Reply(s, "401")
                ELSE req' = [req EXCEPT ![s] = [@ EXCEPT !.pc = "drop", !.other = r, !.guid = FALSE,
                                                         !.keys = rows[r].keys]]
    BY <1>1, <1>4, <1>5, <2>1
  <2>2. CASE Found(s) = {}
    BY <1>1, <1>6, <2>2 DEF Continuity
  <2> QED
    BY <2>1, <2>2 DEF Continuity

LEMMA DropTokenRowDoes ==
    ASSUME TInv, NEW s \in Slot, DropTokenRow(s)
    PROVE  /\ req[s].pc = "drop" /\ Goes(s) /\ req'[s].pc = "put"
           /\ req'[s].other = req[s].other /\ req'[s].keys = req[s].keys
           /\ req'[s].dev = req[s].dev /\ req'[s].events = req[s].events
           /\ req'[s].early = req[s].early
<1> DEFINE new == [req[s] EXCEPT !.pc = "put"]
<1>1. req[s].pc = "drop" /\ req' = [req EXCEPT ![s] = new]
  BY DEF DropTokenRow, Goto
<1>2. req[s] \in Request /\ Placed(req[s])
  BY DEF TInv, RequestsOK, RequestOK
<1>3. new \in Request
  BY <1>2, FieldSet DEF Pc
<1>4. /\ new.pc = "put" /\ new.keys = req[s].keys /\ new.other = req[s].other
      /\ new.dev = req[s].dev /\ new.token = req[s].token /\ new.bye = req[s].bye
      /\ new.wrapped = req[s].wrapped /\ new.events = req[s].events
      /\ new.early = req[s].early
  BY <1>2, SMT DEF Request
<1> HIDE DEF new
<1>5. Placed(new)
  BY <1>1, <1>2, <1>4 DEF Placed, Working
<1> QED
  BY <1>1, <1>3, <1>4, <1>5, SlotSet DEF Goes, Only

LEMMA PutTokenDoes ==
    ASSUME TInv, NEW s \in Slot, PutToken(s)
    PROVE  /\ req[s].pc = "put" /\ Goes(s) /\ req'[s].pc = "serve"
           /\ req'[s].dev = req[s].other /\ req'[s].keys = req[s].keys
           /\ req'[s].events = req[s].events
           /\ req'[s].early = req[s].early
<1> DEFINE new == [req[s] EXCEPT !.pc = "serve", !.dev = req[s].other, !.revoked = FALSE]
<1>1. req[s].pc = "put" /\ req' = [req EXCEPT ![s] = new]
  BY DEF PutToken
<1>2. req[s] \in Request /\ Placed(req[s])
  BY DEF TInv, RequestsOK, RequestOK
<1>3. req[s].other \in Token
  BY <1>1, <1>2 DEF Placed
<1>4. new \in Request
  BY <1>2, <1>3, PutSet DEF Pc
<1>5. /\ new.pc = "serve" /\ new.keys = req[s].keys /\ new.dev = req[s].other
      /\ new.token = req[s].token /\ new.bye = req[s].bye
      /\ new.wrapped = req[s].wrapped /\ new.events = req[s].events
      /\ new.early = req[s].early
  BY <1>2, SMT DEF Request
<1> HIDE DEF new
<1>6. Placed(new)
  BY <1>1, <1>2, <1>3, <1>5 DEF Placed, Working
<1> QED
  BY <1>1, <1>4, <1>5, <1>6, SlotSet DEF Goes, Only

LEMMA BindDoes ==
    ASSUME TInv, NEW s \in Slot, req[s].pc = "bind", Goto(s, "serve")
    PROVE  /\ Goes(s) /\ req'[s].pc = "serve"
           /\ req'[s].dev = req[s].dev /\ req'[s].keys = req[s].keys
           /\ req'[s].events = req[s].events
           /\ req'[s].revoked = req[s].revoked /\ req'[s].early = req[s].early
<1> DEFINE new == [req[s] EXCEPT !.pc = "serve"]
<1>1. req' = [req EXCEPT ![s] = new]
  BY DEF Goto
<1>2. req[s] \in Request /\ Placed(req[s])
  BY DEF TInv, RequestsOK, RequestOK
<1>3. new \in Request
  BY <1>2, FieldSet DEF Pc
<1>4. /\ new.pc = "serve" /\ new.keys = req[s].keys /\ new.dev = req[s].dev
      /\ new.token = req[s].token /\ new.bye = req[s].bye
      /\ new.wrapped = req[s].wrapped /\ new.events = req[s].events
      /\ new.revoked = req[s].revoked /\ new.early = req[s].early
  BY <1>2, SMT DEF Request
<1> HIDE DEF new
<1>5. Placed(new)
  BY <1>2, <1>4 DEF Placed, Working
<1> QED
  BY <1>1, <1>3, <1>4, <1>5, SlotSet DEF Goes, Only

LEMMA ServeDoes ==
    ASSUME TInv, NEW s \in Slot, Serve(s)
    PROVE  /\ req[s].pc = "serve" /\ ~req[s].bye
           /\ \/ Ended(s, "401") /\ stored' = stored
              \/ /\ Goes(s) /\ req'[s].pc = "record" /\ Admits(s)
                 /\ req'[s].dev = req[s].dev /\ req'[s].keys = req[s].keys
                 /\ req'[s].events = 0
                 /\ stored' = stored \cup (IF req[s].events = 0 THEN {}
                                           ELSE {[dev |-> req[s].dev, kid |-> req[s].events]})
<1> DEFINE enc == ownerKey /\ req[s].events = 0
           new == [req[s] EXCEPT !.pc = "record", !.enc = enc, !.other = None, !.events = 0,
                                 !.early = FALSE]
<1>1. req[s].pc = "serve" /\ ~req[s].bye
  BY DEF Serve
<1>2. req[s] \in Request /\ Placed(req[s])
  BY DEF TInv, RequestsOK, RequestOK
<1>3. CASE ~Admits(s)
  BY <1>1, <1>3, ReplyDoes DEF Serve
<1>4. CASE Admits(s)
  <2>1. /\ req' = [req EXCEPT ![s] = new]
        /\ stored' = stored \cup (IF req[s].events = 0 THEN {}
                                  ELSE {[dev |-> req[s].dev, kid |-> req[s].events]})
    BY <1>4 DEF Serve
  <2>2. enc \in BOOLEAN
    OBVIOUS
  <2> HIDE DEF enc
  <2>3. new \in Request
    BY <1>2, <2>2, ServeSet DEF Pc
  <2>4. /\ new.pc = "record" /\ new.keys = req[s].keys /\ new.dev = req[s].dev
        /\ new.token = req[s].token /\ new.bye = req[s].bye
        /\ new.wrapped = req[s].wrapped /\ new.events = 0
    BY <1>2, SMT DEF Request
  <2> HIDE DEF new
  <2>5. Placed(new)
    BY <1>1, <1>2, <2>4 DEF Placed, Working
  <2>6. Goes(s) /\ req'[s] = new
    BY <2>1, <2>3, <2>4, <2>5, SlotSet DEF Goes, Only
  <2> QED
    BY <1>1, <1>4, <2>1, <2>4, <2>6
<1> QED
  BY <1>3, <1>4

\* The request q, marked or not.
MarkedFrom(e, q) ==
    /\ e \in Request /\ Placed(e)
    /\ e.pc = q.pc /\ e.token = q.token /\ e.bye = q.bye /\ e.wrapped = q.wrapped
    /\ e.events = q.events /\ e.dev = q.dev /\ e.other = q.other /\ e.keys = q.keys
    /\ e.revoked = q.revoked
    /\ q.early => e.early

LEMMA EarlyMarks ==
    ASSUME TInv, NEW r \in Token, NEW u \in Slot
    PROVE  /\ MarkedFrom(Early(r)[u], req[u])
           /\ req[u].pc # "record" /\ r \in {req[u].dev, req[u].other} => Early(r)[u].early
<1> DEFINE new == [req[u] EXCEPT !.early = TRUE]
<1>1. req[u] \in Request /\ Placed(req[u])
  BY DEF TInv, RequestsOK, RequestOK
<1>2. CASE req[u].pc # "record" /\ r \in {req[u].dev, req[u].other}
  <2>1. Early(r)[u] = new
    BY <1>2 DEF Early
  <2>2. new \in Request
    BY <1>1, FieldSet
  <2>3. /\ new.pc = req[u].pc /\ new.token = req[u].token /\ new.guid = req[u].guid
        /\ new.bye = req[u].bye /\ new.wrapped = req[u].wrapped
        /\ new.events = req[u].events /\ new.dev = req[u].dev
        /\ new.other = req[u].other /\ new.keys = req[u].keys
        /\ new.revoked = req[u].revoked /\ new.early
    BY <1>1, SMT DEF Request
  <2> HIDE DEF new
  <2>4. req[u].pc # "free"
    BY <1>1, <1>2, LifecycleAssumption DEF Placed, FreeReq
  <2>5. Placed(new)
    BY <1>1, <2>3, <2>4 DEF Placed, Working
  <2> QED
    BY <2>1, <2>2, <2>3, <2>5 DEF MarkedFrom
<1>3. CASE ~(req[u].pc # "record" /\ r \in {req[u].dev, req[u].other})
  <2>1. Early(r)[u] = req[u]
    BY <1>3 DEF Early
  <2> QED
    BY <1>1, <1>3, <2>1 DEF MarkedFrom
<1> QED
  BY <1>2, <1>3

LEMMA RevokeDoes ==
    ASSUME TInv, NEW r \in Token, Revoke(r)
    PROVE  /\ req' \in [Slot -> Request]
           /\ \A u \in Slot :
                 /\ MarkedFrom(req'[u], req[u])
                 /\ req[u].pc # "record" /\ r \in {req[u].dev, req[u].other} => req'[u].early
<1>1. req' = Early(r)
  BY DEF Revoke
<1>2. \A u \in Slot : req'[u] \in Request
  BY <1>1, EarlyMarks DEF MarkedFrom
<1>3. req' \in [Slot -> Request]
  BY <1>1, <1>2 DEF Early
<1> QED
  BY <1>1, <1>3, EarlyMarks

\* An uninstaller's request is over when it has marked the row.
LEMMA StampDoes ==
    ASSUME TInv, NEW s \in Slot, Stamp(s)
    PROVE  /\ req[s].pc = "serve" /\ req[s].bye /\ req[s].dev \in Token
           /\ req' \in [Slot -> Request] /\ req'[s] = FreeReq
           /\ \A u \in Slot \ {s} : MarkedFrom(req'[u], req[u])
<1>1. req[s].pc = "serve" /\ req[s].bye
  BY DEF Stamp
<1>2. req[s].dev \in Token
  BY <1>1 DEF TInv, RequestsOK, RequestOK, Placed, Working
<1>3. req' = [Early(req[s].dev) EXCEPT ![s] = FreeReq]
  BY DEF Stamp
<1>4. \A u \in Slot \ {s} : req'[u] = Early(req[s].dev)[u]
  BY <1>3 DEF Early
<1>5. req'[s] = FreeReq
  BY <1>3 DEF Early
<1>6. FreeReq \in Request
  <2>1. kids \in Nat
    BY LifecycleAssumption DEF TInv, MachineOK
  <2> QED
    BY <2>1, FreeFits DEF RequestOK
<1>7. \A u \in Slot \ {s} : MarkedFrom(req'[u], req[u])
  BY <1>2, <1>4, EarlyMarks
<1>8. req' \in [Slot -> Request]
  BY <1>3, <1>5, <1>6, <1>7 DEF Early, MarkedFrom
<1> QED
  BY <1>1, <1>2, <1>5, <1>7, <1>8

LEMMA SendDoes ==
    ASSUME TInv, NEW s \in Slot, NEW t \in Token, NEW guid \in BOOLEAN,
           NEW bye \in BOOLEAN, guid <=> ~bye,
           NEW wrapped \in 0 .. MaxKid, NEW events \in 0 .. MaxKid,
           Send(s, t, guid, bye, wrapped, events)
    PROVE  /\ req[s].pc = "free" /\ Only(s)
           /\ req'[s].pc = "lookup" /\ req'[s].token = t /\ (req'[s].bye <=> bye)
           /\ req'[s].wrapped = wrapped /\ req'[s].events = events
<1> DEFINE new == [FreeReq EXCEPT !.pc = "lookup", !.token = t, !.guid = guid, !.bye = bye,
                                  !.wrapped = wrapped, !.events = events]
<1>1. req[s].pc = "free" /\ req' = [req EXCEPT ![s] = new]
  BY DEF Send
<1>2. FreeReq \in Request
  <2>1. kids \in Nat
    BY LifecycleAssumption DEF TInv, MachineOK
  <2> QED
    BY <2>1, FreeFits DEF RequestOK
<1>3. new \in Request
  BY <1>2, SendSet
<1>4. /\ new.pc = "lookup" /\ new.token = t /\ new.bye = bye /\ new.guid = guid
      /\ new.wrapped = wrapped /\ new.events = events
  BY <1>2, SMT DEF Request
<1> HIDE DEF new
<1>5. Placed(new)
  BY <1>4 DEF Placed, Working
<1> QED
  BY <1>1, <1>3, <1>4, <1>5, SlotSet DEF Only

LEMMA RecordDoes ==
    ASSUME TInv, NEW s \in Slot, Record(s)
    PROVE  req[s].pc = "record" /\ req[s].dev \in Token /\ ~req[s].bye /\ Ended(s, "ok")
<1>1. req[s].pc = "record" /\ Reply(s, "ok")
  BY DEF Record
<1>2. Placed(req[s])
  BY DEF TInv, RequestsOK, RequestOK
<1> QED
  BY <1>1, <1>2, ReplyDoes DEF Placed, Working

LEMMA ContinuityLostDoes ==
    ASSUME TInv, NEW s \in Slot, ContinuityLost(s)
    PROVE  /\ req[s].pc = "continuity" /\ Goes(s) /\ req'[s].pc = "bind"
           /\ req'[s].dev = req[s].dev /\ req'[s].keys = req[s].keys
           /\ req'[s].events = req[s].events
           /\ req'[s].revoked = req[s].revoked /\ req'[s].early = req[s].early
<1> DEFINE new == [req[s] EXCEPT !.pc = "bind", !.guid = FALSE]
<1>1. req[s].pc = "continuity" /\ req' = [req EXCEPT ![s] = new]
  BY DEF ContinuityLost
<1>2. req[s] \in Request /\ Placed(req[s])
  BY DEF TInv, RequestsOK, RequestOK
<1>3. new \in Request
  BY <1>2, GuidSet DEF Pc
<1>4. /\ new.pc = "bind" /\ new.keys = req[s].keys /\ new.dev = req[s].dev
      /\ new.token = req[s].token /\ new.bye = req[s].bye
      /\ new.wrapped = req[s].wrapped /\ new.events = req[s].events
      /\ new.revoked = req[s].revoked /\ new.early = req[s].early
  BY <1>2, SMT DEF Request
<1> HIDE DEF new
<1>5. Placed(new)
  BY <1>1, <1>2, <1>4 DEF Placed, Working
<1> QED
  BY <1>1, <1>3, <1>4, <1>5, SlotSet DEF Goes, Only

\* The machine takes answers away, and touches no request the function works on.
Freed ==
    /\ req' \in [Slot -> Request]
    /\ \A u \in Slot : req'[u] = req[u] \/ (u \notin Busy /\ req'[u] = FreeReq)

LEMMA FreedOne ==
    ASSUME TInv, NEW s \in Slot,
           \/ req' = req
           \/ s \notin Busy /\ req' = [req EXCEPT ![s] = FreeReq]
    PROVE  Freed
<1>1. FreeReq \in Request
  <2>1. kids \in Nat
    BY LifecycleAssumption DEF TInv, MachineOK
  <2> QED
    BY <2>1, FreeFits DEF RequestOK
<1>2. req \in [Slot -> Request]
  BY DEF TInv, RequestsOK
<1>3. CASE req' = req
  BY <1>2, <1>3 DEF Freed
<1>4. CASE s \notin Busy /\ req' = [req EXCEPT ![s] = FreeReq]
  BY <1>1, <1>2, <1>4 DEF Freed
<1> QED
  BY <1>3, <1>4

LEMMA LeftFrees ==
    ASSUME TInv, req' = [u \in Slot |-> IF u \notin Busy THEN FreeReq ELSE req[u]]
    PROVE  Freed
<1>1. FreeReq \in Request
  <2>1. kids \in Nat
    BY LifecycleAssumption DEF TInv, MachineOK
  <2> QED
    BY <2>1, FreeFits DEF RequestOK
<1>2. req \in [Slot -> Request]
  BY DEF TInv, RequestsOK
<1>3. \A u \in Slot : (IF u \notin Busy THEN FreeReq ELSE req[u]) \in Request
  BY <1>1, <1>2
<1> HIDE DEF Busy
<1> QED
  BY <1>3 DEF Freed

\* A collector stays one.
LEMMA LifeSet ==
    ASSUME NEW c \in Life
    PROVE  /\ \A w \in Slot \cup {None} : [c EXCEPT !.wait = w] \in Life
           /\ \A x \in BOOLEAN : [c EXCEPT !.wrapped = x] \in Life /\ [c EXCEPT !.beaten = x] \in Life
           /\ \A n \in Nat : [c EXCEPT !.fails = n] \in Life
           /\ \A k \in 0 .. MaxKid : [c EXCEPT !.dek = k] \in Life
BY SMT DEF Life

-----------------------------------------------------------------------------
(* Types: every step keeps TInv.                                           *)

\* One row is written.
LEMMA RowWritten ==
    ASSUME RowsOK, NEW r \in Token, Exists(r), NEW x \in Row,
           rows' = [rows EXCEPT ![r] = x],
           x.token = rows[r].token \/ \A q \in Token \ {r} : ~Has(q, x.token),
           x.guid => rows[r].guid \/ Bound \subseteq {r}
    PROVE  RowsOK'
<1>1. rows' \in [Token -> Row \cup {None}] /\ rows'[r] = x
      /\ \A q \in Token \ {r} : rows'[q] = rows[q]
  BY DEF RowsOK
<1>2. \A q \in Token \ {r} : Exists(q) /\ rows[q].token = x.token => FALSE
  BY DEF RowsOK, Has, Exists
<1>3. \A p, q \in Token : Exists(p)' /\ Exists(q)' /\ rows'[p].token = rows'[q].token => p = q
  BY <1>1, <1>2 DEF RowsOK, Exists
<1>4. \A p, q \in Bound' : p = q
  <2>1. ASSUME NEW p \in Bound', p # r PROVE p \in Bound
    BY <1>1, <2>1 DEF Bound
  <2>2. r \in Bound' => r \in Bound \/ Bound \subseteq {r}
    BY <1>1 DEF Bound, Exists
  <2> QED
    BY <2>1, <2>2 DEF RowsOK
<1> QED
  BY <1>1, <1>3, <1>4 DEF RowsOK

\* One row is deleted.
LEMMA RowDeleted ==
    ASSUME RowsOK, NEW r \in Token, rows' = [rows EXCEPT ![r] = None]
    PROVE  RowsOK'
BY DEF RowsOK, Bound, Exists

LEMMA RowsStay ==
    ASSUME RowsOK, rows' = rows
    PROVE  RowsOK'
BY DEF RowsOK, Bound, Exists

\* The index lets a row be bound.
LEMMA RowBound ==
    ASSUME TInv, NEW s \in Slot, NEW ks \in SUBSET Kid, MayBind(req[s].dev),
           req[s].dev \in Token,
           \/ rows' = [rows EXCEPT ![req[s].dev].guid = TRUE]
           \/ rows' = [rows EXCEPT ![req[s].dev] = [@ EXCEPT !.guid = TRUE, !.keys = ks]]
    PROVE  /\ RowsOK'
           /\ Bound \subseteq {req[s].dev} /\ Bound' = {req[s].dev}
           /\ \A q \in Token \ {req[s].dev} : rows'[q] = rows[q]
           /\ Exists(req[s].dev) /\ rows'[req[s].dev] \in Row
           /\ rows'[req[s].dev].guid
           /\ rows'[req[s].dev].token = rows[req[s].dev].token
           /\ rows'[req[s].dev].gone = rows[req[s].dev].gone
           /\ rows'[req[s].dev].revoked = rows[req[s].dev].revoked
           /\ rows'[req[s].dev].keys = rows[req[s].dev].keys \/ rows'[req[s].dev].keys = ks
<1> DEFINE d == req[s].dev
           one == [rows[d] EXCEPT !.guid = TRUE]
           two == [rows[d] EXCEPT !.guid = TRUE, !.keys = ks]
<1>1. Exists(d) /\ Bound \subseteq {d} /\ rows[d] \in Row /\ d \in Token
  BY DEF MayBind, Exists, TInv, RowsOK
<1> HIDE DEF d
<1>2. one \in Row /\ two \in Row
  BY <1>1, RowSet
<1>3. /\ one.guid /\ two.guid /\ one.token = rows[d].token /\ two.token = rows[d].token
      /\ one.gone = rows[d].gone /\ two.gone = rows[d].gone
      /\ one.revoked = rows[d].revoked /\ two.revoked = rows[d].revoked
      /\ one.keys = rows[d].keys /\ two.keys = ks
  BY <1>1, SMT DEF Row
<1>4. PICK x \in {one, two} : rows' = [rows EXCEPT ![d] = x]
  BY DEF d
<1> HIDE DEF one, two
<1>5. /\ x \in Row /\ x.guid /\ x.token = rows[d].token /\ x.gone = rows[d].gone
      /\ x.revoked = rows[d].revoked /\ (x.keys = rows[d].keys \/ x.keys = ks)
  BY <1>2, <1>3, <1>4
<1>6. RowsOK'
  BY <1>1, <1>4, <1>5, RowWritten DEF TInv
<1>7. rows'[d] = x /\ \A q \in Token \ {d} : rows'[q] = rows[q]
  BY <1>1, <1>4 DEF TInv, RowsOK
<1>8. Bound' = {d}
  <2>1. d \in Bound'
    <3>1. x # None
      BY <1>5, LifecycleAssumption
    <3> QED
      BY <1>1, <1>5, <1>7, <3>1 DEF Bound
  <2>2. \A q \in Bound' : q = d
    BY <1>6, <2>1 DEF RowsOK
  <2> QED
    BY <2>1, <2>2
<1> QED
  BY <1>1, <1>5, <1>6, <1>7, <1>8 DEF d

\* A handler's step on one request fits it and the one who waits for it.
LEMMA HandlerFits ==
    ASSUME TInv, NEW s \in Slot, UNCHANGED <<coll, kids>>,
           \/ Goes(s) /\ req'[s].events \in {0, req[s].events}
           \/ \E status \in {"ok", "401", "error"} : Ended(s, status)
    PROVE  RequestsOK' /\ WaitOK'
<1>1. kids \in Nat
  BY LifecycleAssumption DEF TInv, MachineOK
<1>2. Only(s)
  BY DEF Goes, Ended
<1>3. req'[s].wrapped \in {0, req[s].wrapped} /\ req'[s].events \in {0, req[s].events}
  BY DEF Goes, Ended
<1>4. req[s].wrapped <= kids /\ req[s].events <= kids
  BY DEF TInv, RequestsOK, RequestOK
<1>5. RequestOK(req[s])'
  BY <1>1, <1>2, <1>3, <1>4 DEF RequestOK, Only, Placed
<1>6. \A u \in Slot \ {s} : RequestOK(req[u])'
  BY <1>2 DEF RequestOK, Only, Placed, TInv, RequestsOK
<1>7. RequestsOK'
  BY <1>2, <1>5, <1>6 DEF RequestsOK, Only
<1>8. ASSUME coll # None, coll.wait # None
      PROVE  req'[coll.wait].pc # "free" /\ ~req'[coll.wait].bye
  <2>1. coll.wait \in Slot /\ req[coll.wait].pc # "free" /\ ~req[coll.wait].bye
    BY <1>8 DEF TInv, WaitOK, MachineOK, CollOK, Life
  <2>2. CASE coll.wait = s
    <3>1. Waited(s)
      BY <1>8, <2>2 DEF Waited
    <3> QED
      BY <2>1, <2>2, <3>1 DEF Goes, Ended
  <2>3. CASE coll.wait # s
    BY <1>2, <2>1, <2>3 DEF Only
  <2> QED
    BY <2>2, <2>3
<1> QED
  BY <1>7, <1>8 DEF WaitOK

\* Marks do not change what a request holds.
LEMMA MarkedFits ==
    ASSUME TInv, UNCHANGED <<coll, kids>>, req' \in [Slot -> Request],
           \A u \in Slot : \/ MarkedFrom(req'[u], req[u])
                           \/ req'[u] = FreeReq /\ req[u].bye
    PROVE  RequestsOK' /\ WaitOK'
<1>1. kids \in Nat
  BY LifecycleAssumption DEF TInv, MachineOK
<1>2. ASSUME NEW u \in Slot PROVE RequestOK(req'[u]) /\ RequestOK(req[u])'
  <2>1. CASE MarkedFrom(req'[u], req[u])
    BY <2>1 DEF MarkedFrom, RequestOK, Placed, TInv, RequestsOK
  <2>2. CASE req'[u] = FreeReq
    BY <1>1, <2>2, FreeFits DEF RequestOK, Placed
  <2> QED
    BY <1>2, <2>1, <2>2
<1>3. ASSUME coll # None, coll.wait # None
      PROVE  req'[coll.wait].pc # "free" /\ ~req'[coll.wait].bye
  <2>1. coll.wait \in Slot /\ req[coll.wait].pc # "free" /\ ~req[coll.wait].bye
    BY <1>3 DEF TInv, WaitOK, MachineOK, CollOK, Life
  <2> QED
    BY <2>1 DEF MarkedFrom
<1> QED
  BY <1>2, <1>3 DEF RequestsOK, WaitOK

LEMMA FreedFits ==
    ASSUME TInv, Freed, kids' \in Nat, kids <= kids'
    PROVE  RequestsOK'
<1>1. kids \in Nat
  BY LifecycleAssumption DEF TInv, MachineOK
<1>2. ASSUME NEW u \in Slot PROVE RequestOK(req[u])'
  <2>1. req[u] \in Request /\ Placed(req[u]) /\ req[u].wrapped <= kids /\ req[u].events <= kids
    BY DEF TInv, RequestsOK, RequestOK
  <2>2. FreeReq \in Request /\ Placed(FreeReq) /\ FreeReq.wrapped <= kids /\ FreeReq.events <= kids
    BY <1>1, FreeFits DEF RequestOK
  <2>3. \A q \in Request : q.wrapped \in Nat /\ q.events \in Nat
    BY DEF Request
  <2>4. PICK q \in {req[u], FreeReq} : req'[u] = q
    BY DEF Freed
  <2>5. q \in Request /\ Placed(q) /\ q.wrapped <= kids' /\ q.events <= kids'
    BY <1>1, <2>1, <2>2, <2>3, <2>4
  <2> QED
    BY <2>4, <2>5 DEF RequestOK, Placed
<1> QED
  BY <1>2 DEF RequestsOK, Freed

\* What a handler leaves alone.
MachineStays ==
    /\ UNCHANGED <<config, coll, leaving, kids>>

LEMMA MachineStaysOK ==
    ASSUME TInv, MachineStays
    PROVE  MachineOK'
BY DEF MachineStays, TInv, MachineOK, CollOK

\* The requests that read, and those that are answered.
LEMMA ReadingTyped ==
    ASSUME TInv, NEW s \in Slot,
           Authenticate(s) \/ Continuity(s) \/ ContinuityLost(s) \/ Cut(s)
    PROVE  TInv'
<1>1. MachineStays /\ UNCHANGED <<rows, ownerKey, stored, purged, spent, dropped>> /\ mishap' \in BOOLEAN
  BY DEF Authenticate, Continuity, ContinuityLost, Cut, server, machine, bounds, history,
         MachineStays, TInv, RestOK
<1>2. RowsOK' /\ MachineOK'
  BY <1>1, RowsStay, MachineStaysOK DEF TInv
<1>3. RestOK'
  BY <1>1 DEF MachineStays, TInv, RestOK
<1>4. CASE Authenticate(s)
  <2>1. \/ Goes(s) /\ req'[s].events = req[s].events
        \/ Ended(s, "401")
    BY <1>4, AuthenticateDoes
  <2> QED
    BY <1>1, <1>2, <1>3, <2>1, HandlerFits DEF MachineStays, TInv
<1>5. CASE Continuity(s)
  <2>1. \/ Goes(s) /\ req'[s].events = req[s].events
        \/ Ended(s, "401")
    BY <1>5, ContinuityDoes
  <2> QED
    BY <1>1, <1>2, <1>3, <2>1, HandlerFits DEF MachineStays, TInv
<1>6. CASE ContinuityLost(s)
  <2>1. Goes(s) /\ req'[s].events = req[s].events
    BY <1>6, ContinuityLostDoes
  <2> QED
    BY <1>1, <1>2, <1>3, <2>1, HandlerFits DEF MachineStays, TInv
<1>7. CASE Cut(s)
  <2>1. Ended(s, "error")
    BY <1>7, ReplyDoes DEF Cut
  <2> QED
    BY <1>1, <1>2, <1>3, <2>1, HandlerFits DEF MachineStays, TInv
<1> QED
  BY <1>4, <1>5, <1>6, <1>7

LEMMA DropTyped ==
    ASSUME TInv, NEW s \in Slot, DropTokenRow(s)
    PROVE  TInv'
<1>1. MachineStays /\ UNCHANGED <<ownerKey, stored, purged, spent, dropped, mishap>>
  BY DEF DropTokenRow, machine, history, MachineStays
<1>2. req[s].pc = "drop" /\ Goes(s) /\ req'[s].events = req[s].events
  BY DropTokenRowDoes
<1>3. req[s].dev \in Token
  BY <1>2 DEF TInv, RequestsOK, RequestOK, Placed, Working
<1>4. RowsOK'
  BY <1>3, RowDeleted, RowsStay DEF DropTokenRow, TInv
<1>5. MachineOK' /\ RestOK'
  BY <1>1, MachineStaysOK DEF MachineStays, TInv, RestOK
<1> QED
  BY <1>1, <1>2, <1>4, <1>5, HandlerFits DEF MachineStays, TInv

\* The token is put on the row of the machine, or nothing happens to the rows.
LEMMA PutRow ==
    ASSUME TInv, NEW s \in Slot, PutToken(s), rows' # rows
    PROVE  LET r == req[s].other
               t == req[s].token
           IN  /\ r \in Token /\ t \in Token /\ Exists(r)
               /\ \A q \in Token \ {r} : ~Has(q, t) /\ rows'[q] = rows[q]
               /\ rows'[r] \in Row
               /\ rows'[r].token = t /\ rows'[r].guid = rows[r].guid
               /\ rows'[r].keys = rows[r].keys
               /\ ~rows'[r].gone /\ ~rows'[r].revoked
               /\ spent' = spent \cup ({rows[r].token} \ {t}) /\ mishap' = mishap
               /\ RowsOK'
<1> DEFINE r == req[s].other
           t == req[s].token
           x == [rows[r] EXCEPT !.token = t, !.gone = FALSE, !.revoked = FALSE]
<1>1. r \in Token /\ t \in Token
  BY PutTokenDoes DEF TInv, RequestsOK, RequestOK, Placed, Working
<1>2. /\ Exists(r) /\ \A q \in Token \ {r} : rows[q] = None \/ rows[q].token # t
      /\ rows' = Put(r, t)
      /\ spent' = spent \cup ({rows[r].token} \ {t}) /\ mishap' = mishap
  BY DEF PutToken
<1>3. rows[r] \in Row
  BY <1>1, <1>2 DEF Exists, TInv, RowsOK
<1>4. x \in Row
  BY <1>1, <1>3, RowSet
<1>5. /\ x.token = t /\ x.guid = rows[r].guid /\ x.keys = rows[r].keys /\ ~x.gone /\ ~x.revoked
  BY <1>3, SMT DEF Row
<1>6. rows' = [rows EXCEPT ![r] = x]
  BY <1>2 DEF Put
<1> HIDE DEF x
<1>7. \A q \in Token \ {r} : ~Has(q, t)
  BY <1>2 DEF Has, Exists
<1>8. RowsOK'
  BY <1>1, <1>2, <1>4, <1>5, <1>6, <1>7, RowWritten DEF TInv
<1>9. rows'[r] = x /\ \A q \in Token \ {r} : rows'[q] = rows[q]
  BY <1>1, <1>6 DEF TInv, RowsOK
<1> QED
  BY <1>1, <1>2, <1>4, <1>5, <1>7, <1>8, <1>9

LEMMA PutTyped ==
    ASSUME TInv, NEW s \in Slot, PutToken(s)
    PROVE  TInv'
<1>1. /\ MachineStays /\ UNCHANGED <<ownerKey, stored, purged, dropped>>
      /\ mishap' \in BOOLEAN
  BY DEF PutToken, machine, MachineStays, TInv, RestOK
<1>2. Goes(s) /\ req'[s].events = req[s].events
  BY PutTokenDoes
<1>3. RowsOK' /\ spent' \subseteq Token
  <2>1. CASE rows' # rows
    <3>1. req[s].other \in Token /\ rows[req[s].other] \in Row
      BY <2>1, PutRow DEF Exists, TInv, RowsOK
    <3>2. rows[req[s].other].token \in Token
      BY <3>1 DEF Row
    <3> QED
      BY <2>1, <3>2, PutRow DEF TInv, RestOK
  <2>2. CASE rows' = rows
    <3>1. spent' = spent \/ spent' \subseteq spent \cup {rows[req[s].other].token}
      BY DEF PutToken
    <3>2. spent' # spent => Exists(req[s].other)
      BY DEF PutToken
    <3>3. req[s].other \in Token
      BY PutTokenDoes DEF TInv, RequestsOK, RequestOK, Placed
    <3>4. Exists(req[s].other) => rows[req[s].other].token \in Token
      BY <3>3 DEF Exists, TInv, RowsOK, Row
    <3> QED
      BY <2>2, <3>1, <3>2, <3>4, RowsStay DEF TInv, RestOK
  <2> QED
    BY <2>1, <2>2
<1>4. MachineOK' /\ RestOK'
  BY <1>1, <1>3, MachineStaysOK DEF MachineStays, TInv, RestOK
<1> QED
  BY <1>1, <1>2, <1>3, <1>4, HandlerFits DEF MachineStays, TInv

LEMMA BindTyped ==
    ASSUME TInv, NEW s \in Slot, Bind(s) \/ Record(s)
    PROVE  TInv'
<1>1. /\ MachineStays /\ UNCHANGED <<ownerKey, stored, purged, spent, dropped>>
      /\ mishap' \in BOOLEAN
  BY DEF Bind, Record, machine, MachineStays, TInv, RestOK
<1>2. MachineOK' /\ RestOK'
  BY <1>1, MachineStaysOK DEF MachineStays, TInv, RestOK
<1>3. CASE Bind(s)
  <2>1. req[s].pc = "bind" /\ Goto(s, "serve")
    BY <1>3 DEF Bind
  <2>2. Goes(s) /\ req'[s].events = req[s].events
    BY <2>1, BindDoes
  <2>3. req[s].dev \in Token
    BY <2>1 DEF TInv, RequestsOK, RequestOK, Placed, Working
  <2>4. \/ rows' = rows
        \/ MayBind(req[s].dev) /\ rows' = [rows EXCEPT ![req[s].dev].guid = TRUE]
    BY <1>3 DEF Bind
  <2>5. RowsOK'
    BY <2>3, <2>4, RowBound, RowsStay DEF TInv
  <2> QED
    BY <1>1, <1>2, <2>2, <2>5, HandlerFits DEF MachineStays, TInv
<1>4. CASE Record(s)
  <2> DEFINE ks == IF req[s].wrapped = 0 THEN rows[req[s].dev].keys ELSE Keys(s)
  <2>1. req[s].dev \in Token /\ Ended(s, "ok")
    BY <1>4, RecordDoes
  <2>2. \/ rows' = rows
        \/ MayBind(req[s].dev) /\ rows' = [rows EXCEPT ![req[s].dev] =
                                              [@ EXCEPT !.guid = TRUE, !.keys = ks]]
    BY <1>4 DEF Record
  <2>3. MayBind(req[s].dev) => ks \in SUBSET Kid
    <3>1. MayBind(req[s].dev) => rows[req[s].dev].keys \in SUBSET Kid
      BY <2>1 DEF MayBind, Exists, TInv, RowsOK, Row
    <3>2. req[s].wrapped # 0 => Keys(s) \in SUBSET Kid
      BY LifecycleAssumption DEF Keys, Kid, TInv, RequestsOK, Request
    <3> QED
      BY <3>1, <3>2
  <2> HIDE DEF ks
  <2>4. RowsOK'
    BY <2>1, <2>2, <2>3, RowBound, RowsStay DEF TInv
  <2> QED
    BY <1>1, <1>2, <2>1, <2>4, HandlerFits DEF MachineStays, TInv
<1> QED
  BY <1>3, <1>4

LEMMA ServeTyped ==
    ASSUME TInv, NEW s \in Slot, Serve(s)
    PROVE  TInv'
<1>1. MachineStays /\ UNCHANGED <<rows, ownerKey, purged, spent, dropped, mishap>>
  BY DEF Serve, machine, bounds, history, MachineStays
<1>2. \/ Goes(s) /\ req'[s].events \in {0, req[s].events}
      \/ Ended(s, "401")
  BY ServeDoes
<1>3. stored' \subseteq [dev : Token, kid : 1 .. kids]
  <2>1. req[s].pc = "serve" /\ req[s].events <= kids /\ req[s].events \in Nat /\ Placed(req[s])
    BY ServeDoes, LifecycleAssumption DEF TInv, RequestsOK, RequestOK, Request
  <2>2. req[s].dev \in Token
    BY <2>1 DEF Placed, Working
  <2>3. kids \in Nat
    BY LifecycleAssumption DEF TInv, MachineOK
  <2>4. req[s].events # 0 => [dev |-> req[s].dev, kid |-> req[s].events] \in [dev : Token, kid : 1 .. kids]
    BY <2>1, <2>2, <2>3
  <2>5. \/ stored' = stored
        \/ req[s].events # 0 /\ stored' = stored \cup {[dev |-> req[s].dev, kid |-> req[s].events]}
    BY ServeDoes
  <2> QED
    BY <2>4, <2>5 DEF TInv, RestOK
<1>4. RowsOK' /\ MachineOK' /\ RestOK'
  BY <1>1, <1>3, RowsStay, MachineStaysOK DEF MachineStays, TInv, RestOK
<1> QED
  BY <1>1, <1>2, <1>4, HandlerFits DEF MachineStays, TInv

\* Only the mark of a row changes.
Marked(r, gone, revoked) ==
    /\ r \in Token /\ Exists(r)
    /\ rows'[r] \in Row
    /\ rows'[r].token = rows[r].token /\ rows'[r].guid = rows[r].guid
    /\ rows'[r].keys = rows[r].keys
    /\ rows'[r].gone = gone /\ rows'[r].revoked = revoked
    /\ \A q \in Token \ {r} : rows'[q] = rows[q]
    /\ RowsOK'

LEMMA RowMarked ==
    ASSUME TInv, NEW r \in Token, Exists(r), NEW y \in BOOLEAN
    PROVE  /\ rows' = [rows EXCEPT ![r].revoked = y] => Marked(r, rows[r].gone, y)
           /\ \A x \in BOOLEAN :
                 rows' = [rows EXCEPT ![r] = [@ EXCEPT !.gone = x, !.revoked = y]] => Marked(r, x, y)
<1>1. rows[r] \in Row
  BY DEF Exists, TInv, RowsOK
<1>2. ASSUME NEW z \in Row, NEW x, z.token = rows[r].token, z.guid = rows[r].guid,
             z.keys = rows[r].keys, z.gone = x, z.revoked = y, rows' = [rows EXCEPT ![r] = z]
      PROVE  Marked(r, x, y)
  <2>1. RowsOK'
    BY <1>2, RowWritten DEF TInv
  <2>2. rows'[r] = z /\ \A q \in Token \ {r} : rows'[q] = rows[q]
    BY <1>2 DEF TInv, RowsOK
  <2> QED
    BY <1>2, <2>1, <2>2 DEF Marked
<1>3. ASSUME rows' = [rows EXCEPT ![r].revoked = y] PROVE Marked(r, rows[r].gone, y)
  <2> DEFINE z == [rows[r] EXCEPT !.revoked = y]
  <2>1. z \in Row
    BY <1>1, RowSet
  <2>2. /\ z.token = rows[r].token /\ z.guid = rows[r].guid /\ z.keys = rows[r].keys
        /\ z.gone = rows[r].gone /\ z.revoked = y
    BY <1>1, SMT DEF Row
  <2>3. rows' = [rows EXCEPT ![r] = z]
    BY <1>3
  <2> HIDE DEF z
  <2> QED
    BY <1>2, <2>1, <2>2, <2>3
<1>4. ASSUME NEW x \in BOOLEAN, rows' = [rows EXCEPT ![r] = [@ EXCEPT !.gone = x, !.revoked = y]]
      PROVE  Marked(r, x, y)
  <2> DEFINE z == [rows[r] EXCEPT !.gone = x, !.revoked = y]
  <2>1. z \in Row
    BY <1>1, RowSet
  <2>2. /\ z.token = rows[r].token /\ z.guid = rows[r].guid /\ z.keys = rows[r].keys
        /\ z.gone = x /\ z.revoked = y
    BY <1>1, SMT DEF Row
  <2>3. rows' = [rows EXCEPT ![r] = z]
    BY <1>4
  <2> HIDE DEF z
  <2> QED
    BY <1>2, <2>1, <2>2, <2>3
<1> QED
  BY <1>3, <1>4

LEMMA StampRow ==
    ASSUME TInv, NEW s \in Slot, Stamp(s)
    PROVE  rows' = rows \/ Marked(req[s].dev, TRUE, TRUE)
<1>1. req[s].dev \in Token
  BY StampDoes
<1>2. CASE Exists(req[s].dev)
  <2>1. rows' = [rows EXCEPT ![req[s].dev] = [@ EXCEPT !.gone = TRUE, !.revoked = TRUE]]
    BY <1>2 DEF Stamp
  <2> QED
    BY <1>1, <1>2, <2>1, RowMarked
<1>3. CASE ~Exists(req[s].dev)
  BY <1>3 DEF Stamp
<1> QED
  BY <1>2, <1>3

LEMMA RevokeRow ==
    ASSUME TInv, NEW r \in Token, Revoke(r)
    PROVE  /\ Exists(r) /\ ~rows[r].revoked /\ ~rows[r].gone
           /\ Marked(r, rows[r].gone, TRUE)
<1>1. Exists(r) /\ ~rows[r].revoked /\ ~rows[r].gone /\ rows' = [rows EXCEPT ![r].revoked = TRUE]
  BY DEF Revoke
<1> QED
  BY <1>1, RowMarked

LEMMA RestoreRow ==
    ASSUME TInv, NEW r \in Token, Restore(r)
    PROVE  /\ Exists(r) /\ rows[r].revoked /\ ~rows[r].gone
           /\ Marked(r, rows[r].gone, FALSE)
<1>1. Exists(r) /\ rows[r].revoked /\ ~rows[r].gone /\ rows' = [rows EXCEPT ![r].revoked = FALSE]
  BY DEF Restore
<1> QED
  BY <1>1, RowMarked

LEMMA MarkTyped ==
    ASSUME TInv,
           \/ \E s \in Slot : Stamp(s)
           \/ \E r \in Token : Revoke(r)
    PROVE  TInv'
<1>1. MachineStays /\ UNCHANGED <<ownerKey, stored, purged, spent, dropped, mishap>>
  BY DEF Stamp, Revoke, machine, bounds, history, MachineStays
<1>2. MachineOK' /\ RestOK'
  BY <1>1, MachineStaysOK DEF MachineStays, TInv, RestOK
<1>3. ASSUME NEW s \in Slot, Stamp(s) PROVE TInv'
  <2>1. RowsOK'
    BY <1>3, StampRow, RowsStay DEF Marked, TInv
  <2>2. RequestsOK' /\ WaitOK'
    BY <1>1, <1>3, StampDoes, MarkedFits DEF MachineStays
  <2> QED
    BY <1>2, <2>1, <2>2 DEF TInv
<1>4. ASSUME NEW r \in Token, Revoke(r) PROVE TInv'
  <2>1. RowsOK'
    BY <1>4, RevokeRow DEF Marked
  <2>2. RequestsOK' /\ WaitOK'
    BY <1>1, <1>4, RevokeDoes, MarkedFits DEF MachineStays
  <2> QED
    BY <1>2, <2>1, <2>2 DEF TInv
<1> QED
  BY <1>3, <1>4

LEMMA AdminTyped ==
    ASSUME TInv,
           \/ \E r \in Token : Restore(r) \/ Purge(r)
           \/ SetOwnerKey
    PROVE  TInv'
<1>1. MachineStays /\ UNCHANGED req
  BY DEF Restore, Purge, SetOwnerKey, machine, bounds, MachineStays
<1>2. MachineOK' /\ RequestsOK' /\ WaitOK'
  BY <1>1, MachineStaysOK DEF MachineStays, TInv, RequestsOK, RequestOK, Placed, WaitOK
<1>3. ASSUME NEW r \in Token, Restore(r) PROVE TInv'
  <2>1. RowsOK'
    BY <1>3, RestoreRow DEF Marked
  <2>2. RestOK'
    BY <1>1, <1>3 DEF Restore, history, MachineStays, TInv, RestOK
  <2> QED
    BY <1>2, <2>1, <2>2 DEF TInv
<1>4. ASSUME NEW r \in Token, Purge(r) PROVE TInv'
  <2>1. rows[r] \in Row
    BY <1>4 DEF Purge, Exists, TInv, RowsOK
  <2>2. rows[r].token \in Token /\ rows[r].keys \subseteq Kid
    BY <2>1 DEF Row
  <2>3. RestOK'
    BY <1>1, <1>4, <2>2 DEF Purge, MachineStays, TInv, RestOK
  <2>4. RowsOK'
    BY <1>4, RowDeleted DEF Purge, TInv
  <2> QED
    BY <1>2, <2>3, <2>4 DEF TInv
<1>5. ASSUME SetOwnerKey PROVE TInv'
  <2>1. RowsOK' /\ RestOK'
    BY <1>1, <1>5, RowsStay DEF SetOwnerKey, MachineStays, history, TInv, RestOK
  <2> QED
    BY <1>2, <2>1 DEF TInv
<1> QED
  BY <1>3, <1>4, <1>5

\* A machine's step that sends no request.
LEMMA QuietTyped ==
    ASSUME TInv, Freed, UNCHANGED <<rows, ownerKey, stored, purged, spent>>,
           MachineOK', coll' = None \/ (coll' = coll /\ req' = req) \/ coll'.wait = None,
           kids <= kids', leaving' \in {"no", "sent"}, dropped' \subseteq Kid, mishap' \in BOOLEAN
    PROVE  TInv'
<1>1. kids \in Nat /\ kids' \in Nat
  BY LifecycleAssumption DEF TInv, MachineOK
<1>2. RequestsOK'
  BY <1>1, FreedFits
<1>3. WaitOK'
  BY DEF WaitOK, TInv
<1>4. RowsOK'
  BY RowsStay DEF TInv
<1>5. RestOK'
  <2>1. [dev : Token, kid : 1 .. kids] \subseteq [dev : Token, kid : 1 .. kids']
    BY <1>1
  <2> QED
    BY <2>1 DEF TInv, RestOK
<1> QED
  BY <1>2, <1>3, <1>4, <1>5 DEF TInv

LEMMA DropsTyped ==
    ASSUME TInv
    PROVE  Drops \subseteq Kid
BY LifecycleAssumption DEF Drops, Kid, Config, TInv, MachineOK

\* config.json changes.
LEMMA ConfigTyped ==
    ASSUME TInv, (\E t \in Token : Install(t)) \/ EditConfig
    PROVE  TInv'
<1>1. /\ UNCHANGED <<rows, ownerKey, stored, req, coll, leaving, kids, purged, spent, mishap>>
      /\ dropped' \in {dropped, dropped \cup Drops}
  BY DEF Install, EditConfig, server, bounds
<1>2. (config' \in Config /\ config'.dek = 0) \/ config' = Torn
  BY LifecycleAssumption DEF Install, EditConfig, Config
<1>3. MachineOK'
  BY <1>1, <1>2 DEF TInv, MachineOK, CollOK
<1>4. Freed
  BY <1>1 DEF Freed, TInv, RequestsOK
<1> QED
  <2>1. dropped' \subseteq Kid
    BY <1>1, DropsTyped DEF TInv, RestOK
  <2>2. kids <= kids' /\ leaving' \in {"no", "sent"} /\ mishap' \in BOOLEAN
    BY <1>1, LifecycleAssumption DEF TInv, RestOK, MachineOK
  <2> QED
    BY <1>1, <1>3, <1>4, <2>1, <2>2, QuietTyped

LEMMA StartTyped ==
    ASSUME TInv, Start
    PROVE  TInv'
<1>1. /\ UNCHANGED <<rows, ownerKey, stored, req, config, leaving, kids, purged, spent, dropped, mishap>>
      /\ config \in Config /\ config.token # None
      /\ coll' = [token |-> config.token, dek |-> config.dek, wrapped |-> FALSE,
                  fails |-> 0, wait |-> None, beaten |-> FALSE]
  BY DEF Start, server, bounds, history
<1>2. config.token \in Token /\ config.dek \in 0 .. MaxKid
  BY <1>1 DEF Config
<1>3. config.dek <= kids
  BY <1>1, LifecycleAssumption DEF TInv, MachineOK
<1>4. coll' \in Life
  BY <1>1, <1>2, SMT DEF Life
<1>5. coll'.dek = config.dek /\ coll'.fails = 0 /\ ~coll'.wrapped /\ coll'.wait = None
  BY <1>1
<1>6. CollOK'
  <2>1. 0 < AuthFailMax
    BY LifecycleAssumption
  <2> QED
    BY <1>1, <1>3, <1>4, <1>5, <2>1 DEF CollOK
<1>7. MachineOK'
  BY <1>1, <1>6 DEF TInv, MachineOK
<1>8. Freed
  BY <1>1 DEF Freed, TInv, RequestsOK
<1>9. kids <= kids'
  BY <1>1, LifecycleAssumption DEF TInv, MachineOK
<1> QED
  BY <1>1, <1>5, <1>7, <1>8, <1>9, QuietTyped DEF TInv, RestOK

\* What becomes of the collector.
LEMMA CollSet ==
    ASSUME TInv, coll # None
    PROVE  /\ LET c == [coll EXCEPT !.wait = None]
              IN  /\ c \in Life /\ c.dek = coll.dek /\ c.wait = None /\ c.fails = coll.fails
                  /\ c.wrapped = coll.wrapped /\ c.token = coll.token
           /\ LET c == [coll EXCEPT !.fails = @ + 1, !.wait = None]
              IN  /\ c \in Life /\ c.dek = coll.dek /\ c.wait = None /\ c.fails = coll.fails + 1
                  /\ c.wrapped = coll.wrapped /\ c.token = coll.token
           /\ LET c == [coll EXCEPT !.wait = None, !.fails = 0]
              IN  /\ c \in Life /\ c.dek = coll.dek /\ c.wait = None /\ c.fails = 0
                  /\ c.wrapped = coll.wrapped /\ c.token = coll.token
<1>1. coll \in Life
  BY DEF TInv, MachineOK, CollOK
<1>2. coll.fails \in Nat
  BY <1>1 DEF Life
<1>3. [coll EXCEPT !.wait = None] \in Life
  BY <1>1, LifeSet
<1>4. [coll EXCEPT !.fails = coll.fails + 1, !.wait = None] \in Life
  <2>1. [coll EXCEPT !.fails = coll.fails + 1] \in Life
    BY <1>1, <1>2, LifeSet
  <2> QED
    BY <2>1, LifeSet
<1>5. [coll EXCEPT !.wait = None, !.fails = 0] \in Life
  BY <1>3, LifeSet
<1>6. LET c == [coll EXCEPT !.wait = None]
      IN  /\ c.dek = coll.dek /\ c.wait = None /\ c.fails = coll.fails
          /\ c.wrapped = coll.wrapped /\ c.token = coll.token
  BY <1>1, SMT DEF Life
<1>7. LET c == [coll EXCEPT !.fails = coll.fails + 1, !.wait = None]
      IN  /\ c.dek = coll.dek /\ c.wait = None /\ c.fails = coll.fails + 1
          /\ c.wrapped = coll.wrapped /\ c.token = coll.token
  BY <1>1, SMT DEF Life
<1>8. LET c == [coll EXCEPT !.wait = None, !.fails = 0]
      IN  /\ c.dek = coll.dek /\ c.wait = None /\ c.fails = 0
          /\ c.wrapped = coll.wrapped /\ c.token = coll.token
  BY <1>1, SMT DEF Life
<1> QED
  BY <1>3, <1>4, <1>5, <1>6, <1>7, <1>8

\* What the collector's ends and time-outs leave alone.
LEMMA GivingUpTyped ==
    ASSUME TInv, TimeOut \/ Refused \/ Die
    PROVE  TInv'
<1>1. UNCHANGED <<rows, ownerKey, stored, config, leaving, kids, purged, spent, dropped, mishap>>
  BY DEF TimeOut, Refused, Die, server, bounds, history
<1>2. coll # None /\ CollOK
  BY DEF TimeOut, Refused, Die, TInv, MachineOK
<1>3. coll' = None \/ (CollOK' /\ coll'.wait = None)
  <2>1. CASE TimeOut
    <3>1. coll' = [coll EXCEPT !.wait = None]
      BY <2>1 DEF TimeOut
    <3> QED
      BY <1>1, <1>2, <3>1, CollSet DEF CollOK
  <2>2. CASE Refused
    <3>1. coll' = None \/ (coll.fails + 1 # AuthFailMax
                           /\ coll' = [coll EXCEPT !.fails = @ + 1, !.wait = None])
      BY <2>2 DEF Refused
    <3>2. coll.fails + 1 # AuthFailMax => coll.fails + 1 < AuthFailMax
      BY <1>2, LifecycleAssumption DEF CollOK, Life
    <3> QED
      BY <1>1, <1>2, <3>1, <3>2, CollSet DEF CollOK
  <2>3. CASE Die
    BY <2>3 DEF Die
  <2> QED
    BY <2>1, <2>2, <2>3
<1>4. MachineOK'
  BY <1>1, <1>3 DEF TInv, MachineOK
<1>5. Freed
  <2>1. coll.wait # None => coll.wait \in Slot
    BY <1>2 DEF CollOK, Life
  <2>2. CASE TimeOut
    BY <2>1, <2>2, FreedOne DEF TimeOut
  <2>3. CASE Refused
    BY <2>1, <2>3, FreedOne DEF Refused, Busy
  <2>4. CASE Die /\ coll.wait # None
    BY <2>1, <2>4, FreedOne DEF Die
  <2>5. CASE Die /\ coll.wait = None
    BY <2>5 DEF Die, Freed, TInv, RequestsOK
  <2> QED
    BY <2>2, <2>3, <2>4, <2>5
<1>6. kids <= kids'
  BY <1>1, LifecycleAssumption DEF TInv, MachineOK
<1>7. leaving' \in {"no", "sent"} /\ dropped' \subseteq Kid /\ mishap' \in BOOLEAN
  BY <1>1 DEF TInv, RestOK
<1> QED
  BY <1>1, <1>3, <1>4, <1>5, <1>6, <1>7, QuietTyped

LEMMA LeftTyped ==
    ASSUME TInv, Left
    PROVE  TInv'
<1>1. /\ UNCHANGED <<rows, ownerKey, stored, kids, purged, spent, mishap>>
      /\ coll' = None /\ config' = None /\ leaving' = "no" /\ dropped' = dropped \cup Drops
      /\ req' = [u \in Slot |-> IF u \notin Busy THEN FreeReq ELSE req[u]]
  BY DEF Left, server
<1>2. Freed
  BY <1>1, LeftFrees
<1>3. kids <= kids'
  BY <1>1, LifecycleAssumption DEF TInv, MachineOK
<1>4. MachineOK'
  BY <1>1 DEF TInv, MachineOK
<1>5. dropped' \subseteq Kid
  BY <1>1, DropsTyped DEF TInv, RestOK
<1>7. leaving' \in {"no", "sent"} /\ mishap' \in BOOLEAN
  BY <1>1 DEF TInv, RestOK
<1> QED
  BY <1>1, <1>2, <1>3, <1>4, <1>5, <1>7, QuietTyped

\* The answer: the key is the one it was, or a new one, or the collector dies
\* writing it.
LEMMA AnsweredDoes ==
    ASSUME TInv, Answered
    PROVE  /\ coll # None /\ coll.wait \in Slot /\ req[coll.wait].pc = "ok" /\ Freed
           /\ \/ /\ CollOK' /\ coll'.wait = None /\ coll'.token = coll.token /\ coll'.dek = coll.dek
                 /\ coll' # None
                 /\ UNCHANGED <<config, kids, mishap>>
              \/ /\ CollOK' /\ coll'.wait = None /\ coll'.token = coll.token /\ coll'.dek = kids'
                 /\ coll' # None
                 /\ kids' = kids + 1 /\ kids' \in 1 .. MaxKid
                 /\ coll.dek = 0 /\ config # Torn
                 /\ \/ config' = Persist(kids') /\ mishap' = mishap
                    \/ config' \in {config, Torn} /\ mishap' = TRUE
              \/ /\ coll' = None /\ config' = Torn /\ mishap' = mishap
                 /\ kids' = kids + 1 /\ kids' \in 1 .. MaxKid
                 /\ coll.dek = 0 /\ config \in Config
<1> DEFINE next == [coll EXCEPT !.wait = None, !.fails = 0]
           on == [next EXCEPT !.wrapped = TRUE]
           new == [next EXCEPT !.dek = kids + 1, !.wrapped = TRUE]
<1>1. coll # None /\ coll.wait # None /\ req[coll.wait].pc = "ok"
      /\ req' = [req EXCEPT ![coll.wait] = FreeReq]
  BY DEF Answered
<1>2. coll.wait \in Slot
  BY <1>1 DEF TInv, MachineOK, CollOK, Life
<1>3. Freed
  BY <1>1, <1>2, FreedOne DEF Busy
<1>4. /\ next \in Life /\ next.dek = coll.dek /\ next.wait = None /\ next.fails = 0
      /\ next.wrapped = coll.wrapped /\ next.token = coll.token
  BY <1>1, CollSet
<1>5. kids \in 0 .. MaxKid /\ MaxKid \in Nat /\ 0 < AuthFailMax /\ CollOK
  BY <1>1, LifecycleAssumption DEF TInv, MachineOK
<1> HIDE DEF next
<1>6. on \in Life
  BY <1>4, LifeSet
<1>7. /\ on.dek = coll.dek /\ on.wait = None /\ on.fails = 0 /\ on.wrapped /\ on.token = coll.token
  BY <1>4, SMT DEF Life
<1>8. \A c \in Life : c # None
  BY LifecycleAssumption
<1>9. ASSUME coll' = next, UNCHANGED kids
      PROVE  CollOK' /\ coll'.wait = None /\ coll'.token = coll.token /\ coll'.dek = coll.dek /\ coll' # None
  BY <1>4, <1>5, <1>8, <1>9 DEF CollOK
<1>10. ASSUME coll.dek # 0, coll' = on, UNCHANGED kids
       PROVE  CollOK' /\ coll'.wait = None /\ coll'.token = coll.token /\ coll'.dek = coll.dek /\ coll' # None
  <2> HIDE DEF on
  <2> QED
    BY <1>5, <1>6, <1>7, <1>8, <1>10 DEF CollOK
<1>11. ASSUME kids < MaxKid, kids' = kids + 1, coll' = [next EXCEPT !.dek = kids', !.wrapped = TRUE]
       PROVE  CollOK' /\ coll'.wait = None /\ coll'.token = coll.token /\ coll'.dek = kids' /\ coll' # None
  <2>1. kids + 1 \in 0 .. MaxKid /\ kids + 1 # 0
    BY <1>5, <1>11
  <2>2. [next EXCEPT !.dek = kids + 1] \in Life
    BY <1>4, <2>1, LifeSet
  <2>3. new \in Life
    BY <2>2, LifeSet
  <2>4. /\ new.dek = kids + 1 /\ new.wait = None /\ new.fails = 0 /\ new.wrapped /\ new.token = coll.token
    BY <1>4, SMT DEF Life
  <2>5. coll' = new
    BY <1>11
  <2> HIDE DEF new
  <2> QED
    <3>1. kids' = kids + 1 /\ kids \in Nat
      BY <1>5, <1>11
    <3>2. coll' \in Life /\ coll'.dek <= kids' /\ coll'.fails < AuthFailMax /\ coll'.dek # 0
      BY <1>5, <2>1, <2>3, <2>4, <2>5, <3>1
    <3> QED
      BY <1>8, <2>4, <2>5, <3>1, <3>2 DEF CollOK
<1>12. kids < MaxKid /\ kids' = kids + 1 => kids' \in 1 .. MaxKid
  BY <1>5
<1> DEFINE enc == req[coll.wait].enc
<1>13. \/ coll' = next /\ UNCHANGED <<config, kids, mishap>>
       \/ coll.dek # 0 /\ coll' = on /\ UNCHANGED <<config, kids, mishap>>
       \/ /\ coll.dek = 0 /\ config # Torn /\ kids < MaxKid /\ kids' = kids + 1
          /\ coll' = [next EXCEPT !.dek = kids', !.wrapped = TRUE]
          /\ \/ config' = Persist(kids') /\ mishap' = mishap
             \/ config' \in {config, Torn} /\ mishap' = TRUE
       \/ /\ coll.dek = 0 /\ kids < MaxKid /\ kids' = kids + 1 /\ config \in Config
          /\ coll' = None /\ config' = Torn /\ mishap' = mishap
  BY DEF Answered, next
<1> HIDE DEF enc, on, new
<1> QED
  BY <1>1, <1>2, <1>3, <1>9, <1>10, <1>11, <1>12, <1>13

LEMMA PersistDoes ==
    ASSUME NEW k \in 0 .. MaxKid
    PROVE  IF config \in Config
           THEN Persist(k) \in Config /\ Persist(k).dek = k /\ Persist(k).token = config.token
           ELSE Persist(k) = config
BY SMT DEF Persist, Config

LEMMA AnsweredTyped ==
    ASSUME TInv, Answered
    PROVE  TInv'
<1>1. /\ UNCHANGED <<rows, ownerKey, stored, leaving, purged, spent, dropped>>
      /\ Freed
  BY AnsweredDoes DEF Answered, server
<1>2. kids \in 0 .. MaxKid /\ (kids' = kids \/ (kids' = kids + 1 /\ kids' \in 1 .. MaxKid))
  BY AnsweredDoes DEF TInv, MachineOK
<1>3. coll' = None \/ (CollOK' /\ coll'.wait = None)
  BY AnsweredDoes
<1>4. (config' \in Config /\ config'.dek <= kids') \/ config' \in {None, Torn}
  <2>1. CASE config' = config
    BY <1>2, <2>1, LifecycleAssumption DEF TInv, MachineOK, Config
  <2>2. CASE config' = Torn
    BY <2>2
  <2>3. CASE kids' \in 1 .. MaxKid /\ config' = Persist(kids')
    <3>1. kids' \in 0 .. MaxKid /\ kids' <= kids'
      BY <2>3, LifecycleAssumption
    <3> QED
      BY <2>3, <3>1, PersistDoes DEF TInv, MachineOK
  <2> QED
    BY <2>1, <2>2, <2>3, AnsweredDoes
<1>5. MachineOK'
  BY <1>2, <1>3, <1>4, LifecycleAssumption DEF MachineOK
<1>6. leaving' \in {"no", "sent"} /\ dropped' \subseteq Kid /\ mishap' \in BOOLEAN
  BY <1>1, AnsweredDoes DEF TInv, RestOK
<1>7. kids <= kids'
  BY <1>2, LifecycleAssumption
<1> QED
  BY <1>1, <1>3, <1>5, <1>6, <1>7, QuietTyped

\* The request that is sent, and who waits for it.
LEMMA BeatDoes ==
    ASSUME TInv, NEW s \in Slot, Beat(s) \/ Post(s)
    PROVE  /\ coll # None /\ coll.token \in Token
           /\ Only(s) /\ req[s].pc = "free" /\ req'[s].pc = "lookup"
           /\ req'[s].token = coll.token /\ ~req'[s].bye
           /\ req'[s].wrapped \in {0, coll.dek} /\ req'[s].events \in {0, coll.dek}
           /\ mishap' = (mishap \/ Meets(coll.token, IF req'[s].wrapped # 0 THEN req'[s].wrapped
                                                     ELSE req'[s].events))
           /\ CollOK' /\ coll' # None /\ coll'.wait = s
           /\ coll'.token = coll.token /\ coll'.dek = coll.dek
           /\ UNCHANGED <<server, config, leaving, kids, purged, spent, dropped>>
<1> DEFINE wrapped == IF coll.wrapped THEN coll.dek ELSE 0
           waits == [coll EXCEPT !.wait = s]
           beats == [coll EXCEPT !.wait = s, !.beaten = TRUE]
<1>1. coll # None /\ CollOK
  BY DEF Beat, Post, TInv, MachineOK
<1>2. coll.token \in Token /\ coll.dek \in 0 .. MaxKid /\ 0 \in 0 .. MaxKid
  BY <1>1, LifecycleAssumption DEF CollOK, Life
<1>3. wrapped \in {0, coll.dek} /\ wrapped \in 0 .. MaxKid
  BY <1>2
<1>4. \E e \in {0, coll.dek} : Send(s, coll.token, TRUE, FALSE, wrapped, e)
  BY DEF Beat, Post
<1>5. PICK e \in {0, coll.dek} : Send(s, coll.token, TRUE, FALSE, wrapped, e)
  BY <1>4
<1> HIDE DEF wrapped
<1>6. e \in 0 .. MaxKid
  BY <1>2
<1>8. /\ req[s].pc = "free" /\ Only(s)
      /\ req'[s].pc = "lookup" /\ req'[s].token = coll.token /\ ~req'[s].bye
      /\ req'[s].wrapped = wrapped /\ req'[s].events = e
  <2>1. PICK g \in BOOLEAN, b \in BOOLEAN : (g <=> ~b) /\ ~b /\ Send(s, coll.token, g, b, wrapped, e)
    BY <1>5
  <2> QED
    BY <1>2, <1>3, <1>6, <2>1, SendDoes
<1>9. mishap' = (mishap \/ Meets(coll.token, IF wrapped # 0 THEN wrapped ELSE e))
  BY <1>5 DEF Send
<1>10. coll \in Life
  BY <1>1 DEF CollOK
<1>11. waits \in Life /\ beats \in Life
  BY <1>10, LifeSet
<1>12. /\ waits.wait = s /\ waits.token = coll.token /\ waits.dek = coll.dek
       /\ waits.fails = coll.fails /\ waits.wrapped = coll.wrapped
       /\ beats.wait = s /\ beats.token = coll.token /\ beats.dek = coll.dek
       /\ beats.fails = coll.fails /\ beats.wrapped = coll.wrapped
  BY <1>10, SMT DEF Life
<1>13. coll' \in {waits, beats} /\ UNCHANGED <<server, config, leaving, kids, purged, spent, dropped>>
  BY DEF Beat, Post, bounds
<1> HIDE DEF waits, beats
<1>14. CollOK' /\ coll' # None /\ coll'.wait = s /\ coll'.token = coll.token /\ coll'.dek = coll.dek
  BY <1>1, <1>11, <1>12, <1>13, LifecycleAssumption DEF CollOK
<1> QED
  BY <1>1, <1>2, <1>3, <1>5, <1>8, <1>9, <1>13, <1>14

LEMMA LeaveDoes ==
    ASSUME TInv, NEW s \in Slot, Leave(s)
    PROVE  /\ config \in Config /\ config.token \in Token
           /\ Only(s) /\ req[s].pc = "free" /\ req'[s].pc = "lookup"
           /\ req'[s].token = config.token /\ req'[s].bye
           /\ req'[s].wrapped = 0 /\ req'[s].events = 0
           /\ mishap' = (mishap \/ Meets(config.token, 0))
           /\ UNCHANGED <<server, config, coll, kids, purged, spent, dropped>> /\ leaving' = "sent"
<1>1. config \in Config /\ config.token # None /\ Send(s, config.token, FALSE, TRUE, 0, 0)
      /\ UNCHANGED <<server, config, coll, kids, purged, spent, dropped>> /\ leaving' = "sent"
  BY DEF Leave
<1>2. config.token \in Token /\ 0 \in 0 .. MaxKid
  BY <1>1, LifecycleAssumption DEF Config
<1>4. mishap' = (mishap \/ Meets(config.token, 0))
  BY <1>1 DEF Send
<1> DEFINE new == [FreeReq EXCEPT !.pc = "lookup", !.token = config.token, !.guid = FALSE,
                                  !.bye = TRUE, !.wrapped = 0, !.events = 0]
<1>5. req[s].pc = "free" /\ req' = [req EXCEPT ![s] = new]
  BY <1>1 DEF Send
<1>6. FreeReq \in Request
  <2>1. kids \in Nat
    BY LifecycleAssumption DEF TInv, MachineOK
  <2> QED
    BY <2>1, FreeFits DEF RequestOK
<1>7. new \in Request
  BY <1>2, <1>6, SendSet
<1>8. /\ new.pc = "lookup" /\ new.token = config.token /\ new.bye /\ new.guid = FALSE
      /\ new.wrapped = 0 /\ new.events = 0
  BY <1>6, SMT DEF Request
<1> HIDE DEF new
<1>9. Placed(new)
  BY <1>2, <1>8 DEF Placed, Working
<1>10. Only(s) /\ req'[s] = new
  BY <1>5, <1>7, <1>9, SlotSet DEF Only
<1> QED
  BY <1>1, <1>2, <1>4, <1>5, <1>8, <1>10

LEMMA SendTyped ==
    ASSUME TInv, NEW s \in Slot, Beat(s) \/ Post(s) \/ Leave(s)
    PROVE  TInv'
<1>1. /\ UNCHANGED <<rows, ownerKey, stored, config, kids, purged, spent, dropped>>
      /\ Only(s) /\ req[s].pc = "free" /\ req'[s].pc = "lookup"
  BY BeatDoes, LeaveDoes DEF server
<1>2. kids \in Nat
  BY LifecycleAssumption DEF TInv, MachineOK
<1>3. req'[s].wrapped <= kids /\ req'[s].events <= kids
  BY <1>2, BeatDoes, LeaveDoes DEF TInv, MachineOK, CollOK
<1>4. RequestsOK'
  <2>1. RequestOK(req[s])'
    BY <1>1, <1>3 DEF RequestOK, Only, Placed
  <2>2. \A u \in Slot \ {s} : RequestOK(req[u])'
    BY <1>1 DEF RequestOK, Only, Placed, TInv, RequestsOK
  <2> QED
    BY <1>1, <2>1, <2>2 DEF RequestsOK, Only
<1>5. MachineOK'
  BY <1>1, BeatDoes, LeaveDoes DEF TInv, MachineOK, CollOK
<1>6. WaitOK'
  <2>1. CASE Beat(s) \/ Post(s)
    BY <1>1, <2>1, BeatDoes DEF WaitOK
  <2>2. CASE Leave(s)
    <3>1. coll' = coll
      BY <2>2, LeaveDoes
    <3>2. coll # None /\ coll.wait # None => coll.wait \in Slot \ {s}
      BY <1>1 DEF TInv, MachineOK, CollOK, Life, WaitOK
    <3> QED
      BY <1>1, <3>1, <3>2 DEF WaitOK, Only, TInv
  <2> QED
    BY <2>1, <2>2
<1>7. RowsOK'
  BY <1>1, RowsStay DEF TInv
<1>8. leaving' \in {"no", "sent"} /\ mishap' \in BOOLEAN
  <2>1. CASE Leave(s)
    BY <2>1, LeaveDoes DEF TInv, RestOK
  <2>2. CASE Beat(s) \/ Post(s)
    BY <2>2, BeatDoes DEF TInv, RestOK
  <2> QED
    BY <2>1, <2>2
<1>9. RestOK'
  BY <1>1, <1>8 DEF TInv, RestOK
<1> QED
  BY <1>4, <1>5, <1>6, <1>7, <1>9 DEF TInv

LEMMA TInvInit == Init => TInv
<1> SUFFICES ASSUME Init PROVE TInv
  OBVIOUS
<1>1. \A t \in Token : NewRow(t) \in Row /\ NewRow(t).token = t /\ ~NewRow(t).guid
  BY SMT DEF NewRow, Row
<1>2. rows = [t \in Token |-> NewRow(t)] /\ kids = 0
  BY DEF Init
<1>3. RowsOK
  BY <1>1, <1>2 DEF RowsOK, Bound, Exists
<1>4. RequestOK(FreeReq) /\ FreeReq \in Request
  BY <1>2, FreeFits DEF RequestOK
<1>5. RequestsOK
  BY <1>4 DEF Init, RequestsOK
<1>6. MachineOK /\ WaitOK
  BY LifecycleAssumption DEF Init, MachineOK, WaitOK
<1>7. RestOK
  BY DEF Init, RestOK
<1> QED
  BY <1>3, <1>5, <1>6, <1>7 DEF TInv

LEMMA TInvStutter == TInv /\ UNCHANGED vars => TInv'
<1> SUFFICES ASSUME TInv, UNCHANGED vars PROVE TInv'
  OBVIOUS
<1>1. UNCHANGED <<rows, ownerKey, stored, req, config, coll, leaving, kids, purged, spent, dropped, mishap>>
  BY DEF vars, server, machine, bounds, history
<1>2. RowsOK' /\ RequestsOK'
  BY <1>1, RowsStay DEF TInv, RequestsOK, RequestOK, Placed
<1>3. MachineOK' /\ WaitOK' /\ RestOK'
  BY <1>1 DEF TInv, MachineOK, CollOK, WaitOK, RestOK
<1> QED
  BY <1>2, <1>3 DEF TInv

LEMMA TInvStep == TInv /\ [Next]_vars => TInv'
<1> SUFFICES ASSUME TInv, Next PROVE TInv'
  BY TInvStutter
<1> QED
  BY ReadingTyped, DropTyped, PutTyped, BindTyped, ServeTyped, MarkTyped, AdminTyped,
     ConfigTyped, StartTyped, GivingUpTyped, LeftTyped, AnsweredTyped, SendTyped DEF Next

LEMMA TInvTypes == TInv => TypeOK
<1> SUFFICES ASSUME TInv PROVE TypeOK
  OBVIOUS
<1>1. kids \in 0 .. MaxKid /\ kids \in Nat
  BY LifecycleAssumption DEF TInv, MachineOK
<1>2. Cardinality(Bound) <= 1
  <2>1. CASE Bound = {}
    BY <2>1, FS_EmptySet
  <2>2. ASSUME NEW r \in Bound PROVE Cardinality(Bound) <= 1
    <3>1. Bound = {r}
      BY DEF TInv, RowsOK
    <3>2. Cardinality({r}) = 1
      BY FS_Singleton
    <3> QED
      BY <3>1, <3>2
  <2> QED
    BY <2>1, <2>2
<1>3. ASSUME NEW s \in Slot
      PROVE  /\ req[s].pc \in Pc /\ (req[s].pc = "free" => req[s] = FreeReq)
             /\ req[s].wrapped \in {0} \cup 1 .. kids /\ req[s].events \in {0} \cup 1 .. kids
  <2>1. req[s] \in Request /\ Placed(req[s]) /\ req[s].wrapped <= kids /\ req[s].events <= kids
    BY DEF TInv, RequestsOK, RequestOK
  <2>2. req[s].wrapped \in Nat /\ req[s].events \in Nat /\ req[s].pc \in Pc
    BY <2>1 DEF Request
  <2> QED
    BY <1>1, <2>1, <2>2 DEF Placed
<1>4. coll # None =>
          /\ coll.token \in Token /\ coll.dek \in 0 .. kids /\ coll.fails \in 0 .. AuthFailMax - 1
          /\ coll.wait # None => req[coll.wait].pc # "free" /\ ~req[coll.wait].bye
          /\ coll.wrapped => coll.dek # 0
  <2> SUFFICES ASSUME coll # None
               PROVE  /\ coll.token \in Token /\ coll.dek \in 0 .. kids
                      /\ coll.fails \in 0 .. AuthFailMax - 1
                      /\ coll.wait # None => req[coll.wait].pc # "free" /\ ~req[coll.wait].bye
                      /\ coll.wrapped => coll.dek # 0
    OBVIOUS
  <2>1. CollOK
    BY DEF TInv, MachineOK
  <2>2. coll.token \in Token /\ coll.dek \in 0 .. MaxKid /\ coll.fails \in Nat
    BY <2>1 DEF CollOK, Life
  <2>3. coll.dek \in 0 .. kids /\ coll.fails \in 0 .. AuthFailMax - 1
    BY <1>1, <2>1, <2>2, LifecycleAssumption DEF CollOK
  <2> QED
    BY <2>1, <2>2, <2>3 DEF TInv, WaitOK, CollOK
<1>5. \A q, r \in Token : Exists(q) /\ Exists(r) /\ q # r => rows[q].token # rows[r].token
  BY DEF TInv, RowsOK
<1>6. config \in Config \cup {None, Torn}
  BY DEF TInv, MachineOK
<1> QED
  BY <1>2, <1>3, <1>4, <1>5, <1>6 DEF TInv, RowsOK, RestOK, TypeOK

\* The rows, requests, files and keys keep their types: the table's two unique
\* indexes hold, a collector waits for a request of its own, and no key is in
\* use that was not generated (index.ts, schema.sql; collector.py).
THEOREM LifecycleTyped == Spec => []TypeOK
<1>1. Spec => []TInv
  BY TInvInit, TInvStep, PTL DEF Spec
<1> QED
  BY <1>1, TInvTypes, PTL

-----------------------------------------------------------------------------
(* What a request knows of a revocation.                                   *)

\* For one request.
ToldOf(q) ==
    /\ q.pc \in {"continuity", "bind", "serve"} /\ Exists(q.dev) /\ Blocked(q.dev)
          => q.revoked \/ q.early
    /\ q.pc \in {"drop", "put"} /\ Exists(q.other) /\ Blocked(q.other) => q.early

LEMMA ToldAll == Told <=> \A s \in Slot : ToldOf(req[s])
BY DEF Told, ToldOf

\* A row that is blocked was so before the step.
NoneBlocked ==
    \A r \in Token : Exists(r)' /\ Blocked(r)' => Exists(r) /\ Blocked(r)

LEMMA ToldOneGoes ==
    ASSUME TInv, Told, NEW s \in Slot, Only(s),
           NoneBlocked, ToldOf(req[s])'
    PROVE  Told'
<1>1. ASSUME NEW u \in Slot \ {s} PROVE ToldOf(req[u])'
  <2>1. req'[u] = req[u] /\ ToldOf(req[u]) /\ req[u] \in Request /\ Placed(req[u])
    BY ToldAll DEF Only, TInv, RequestsOK, RequestOK
  <2>2. /\ req[u].pc \in {"continuity", "bind", "serve"} => req[u].dev \in Token
        /\ req[u].pc \in {"drop", "put"} => req[u].other \in Token
    BY <2>1 DEF Placed, Working
  <2> QED
    BY <2>1, <2>2 DEF ToldOf, NoneBlocked
<1> QED
  BY <1>1 DEF Told, ToldOf

\* Requests that have nothing to tell yet, or any more.
LEMMA ToldNothing ==
    ASSUME NEW s \in Slot, req'[s].pc \in {"free", "lookup", "record", "ok", "401", "error"}
    PROVE  ToldOf(req[s])'
BY DEF ToldOf

LEMMA ToldReads ==
    ASSUME TInv, Told, NEW s \in Slot,
           Authenticate(s) \/ Continuity(s) \/ ContinuityLost(s) \/ Cut(s)
    PROVE  Told'
<1>1. rows' = rows
  BY DEF Authenticate, Continuity, ContinuityLost, Cut, server
<1>2. NoneBlocked
  BY <1>1 DEF NoneBlocked, Exists, Blocked
<1>3. ToldOf(req[s]) /\ req[s] \in Request
  BY ToldAll DEF TInv, RequestsOK
<1>4. ASSUME NEW status \in {"401", "error"}, Ended(s, status) PROVE Told'
  BY <1>2, <1>4, ToldNothing, ToldOneGoes DEF Ended
<1>5. CASE Authenticate(s)
  <2>1. CASE Ended(s, "401")
    BY <1>4, <2>1
  <2>2. CASE ~Ended(s, "401")
    <3>1. /\ Only(s) /\ req'[s].pc \in {"serve", "continuity"}
          /\ req'[s].revoked = rows[req'[s].dev].revoked
      BY <1>5, <2>2, AuthenticateDoes DEF Goes
    <3>2. ToldOf(req[s])'
      BY <1>1, <3>1 DEF ToldOf, Exists, Blocked
    <3> QED
      BY <1>2, <3>1, <3>2, ToldOneGoes
  <2> QED
    BY <2>1, <2>2
<1>6. CASE Continuity(s) \/ ContinuityLost(s)
  <2>1. CASE Ended(s, "401")
    BY <1>4, <2>1
  <2>2. CASE ~Ended(s, "401")
    <3>1. /\ Only(s) /\ req[s].pc = "continuity"
          /\ \/ req'[s].pc = "drop" /\ ~Blocked(req'[s].other)
             \/ /\ req'[s].pc \in {"serve", "bind"} /\ req'[s].dev = req[s].dev
                /\ req'[s].revoked = req[s].revoked /\ req'[s].early = req[s].early
      BY <1>6, <2>2, ContinuityDoes, ContinuityLostDoes DEF Goes
    <3>2. ToldOf(req[s])'
      BY <1>1, <1>3, <3>1 DEF ToldOf, Exists, Blocked
    <3> QED
      BY <1>2, <3>1, <3>2, ToldOneGoes
  <2> QED
    BY <2>1, <2>2
<1>7. CASE Cut(s)
  BY <1>4, <1>7, ReplyDoes DEF Cut
<1> QED
  BY <1>5, <1>6, <1>7

LEMMA ToldWrites ==
    ASSUME TInv, Told, NEW s \in Slot,
           DropTokenRow(s) \/ PutToken(s) \/ Bind(s) \/ Serve(s) \/ Record(s)
    PROVE  Told'
<1>1. ToldOf(req[s]) /\ req[s] \in Request /\ Placed(req[s])
  BY ToldAll DEF TInv, RequestsOK, RequestOK
<1>2. CASE DropTokenRow(s)
  <2>1. /\ Only(s) /\ req[s].pc = "drop" /\ req'[s].pc = "put"
        /\ req'[s].other = req[s].other /\ req'[s].early = req[s].early
    BY <1>2, DropTokenRowDoes DEF Goes
  <2>2. req[s].dev \in Token /\ req[s].other \in Token
    BY <1>1, <2>1 DEF Placed, Working
  <2>3. rows' = rows \/ rows' = [rows EXCEPT ![req[s].dev] = None]
    BY <1>2 DEF DropTokenRow
  <2>4. NoneBlocked
    BY <2>2, <2>3 DEF NoneBlocked, Exists, Blocked, TInv, RowsOK
  <2>5. ToldOf(req[s])'
    BY <1>1, <2>1, <2>2, <2>4 DEF ToldOf, NoneBlocked
  <2> QED
    BY <2>1, <2>4, <2>5, ToldOneGoes
<1>3. CASE PutToken(s)
  <2>1. /\ Only(s) /\ req[s].pc = "put" /\ req'[s].pc = "serve"
        /\ req'[s].dev = req[s].other /\ req'[s].early = req[s].early
    BY <1>3, PutTokenDoes DEF Goes
  <2>2. req[s].other \in Token
    BY <1>1, <2>1 DEF Placed
  <2> DEFINE r == req[s].other
  <2>3. NoneBlocked /\ (rows' # rows => ~rows'[r].revoked)
    <3>1. CASE rows' = rows
      BY <3>1 DEF NoneBlocked, Exists, Blocked
    <3>2. CASE rows' # rows
      <4>1. /\ \A q \in Token \ {req[s].other} : rows'[q] = rows[q]
            /\ ~rows'[req[s].other].revoked
        BY <1>3, <3>2, PutRow
      <4> QED
        BY <4>1 DEF NoneBlocked, Exists, Blocked
    <3> QED
      BY <3>1, <3>2
  <2>4. ToldOf(req[s])'
    BY <1>1, <2>1, <2>2, <2>3 DEF ToldOf, Exists, Blocked
  <2> QED
    BY <2>1, <2>3, <2>4, ToldOneGoes
<1>4. CASE Bind(s)
  <2>1. /\ Only(s) /\ req[s].pc = "bind" /\ req'[s].pc = "serve"
        /\ req'[s].dev = req[s].dev
        /\ req'[s].revoked = req[s].revoked /\ req'[s].early = req[s].early
    BY <1>4, BindDoes DEF Bind, Goes
  <2>2. req[s].dev \in Token
    BY <1>1, <2>1 DEF Placed, Working
  <2>3. \/ rows' = rows
        \/ MayBind(req[s].dev) /\ rows' = [rows EXCEPT ![req[s].dev].guid = TRUE]
    BY <1>4 DEF Bind
  <2>4. NoneBlocked
    BY <2>2, <2>3, RowBound DEF NoneBlocked, Exists, Blocked
  <2>5. ToldOf(req[s])'
    BY <1>1, <2>1, <2>2, <2>4 DEF ToldOf, NoneBlocked
  <2> QED
    BY <2>1, <2>4, <2>5, ToldOneGoes
<1>5. CASE Serve(s)
  <2>1. rows' = rows
    BY <1>5 DEF Serve
  <2>2. Only(s) /\ req'[s].pc \in {"record", "401", "free"}
    BY <1>5, ServeDoes DEF Goes, Ended
  <2>3. NoneBlocked
    BY <2>1 DEF NoneBlocked, Exists, Blocked
  <2> QED
    BY <2>2, <2>3, ToldNothing, ToldOneGoes
<1>6. CASE Record(s)
  <2> DEFINE ks == IF req[s].wrapped = 0 THEN rows[req[s].dev].keys ELSE Keys(s)
  <2>1. req[s].dev \in Token /\ Ended(s, "ok")
    BY <1>6, RecordDoes
  <2>2. \/ rows' = rows
        \/ MayBind(req[s].dev) /\ rows' = [rows EXCEPT ![req[s].dev] =
                                              [@ EXCEPT !.guid = TRUE, !.keys = ks]]
    BY <1>6 DEF Record
  <2>3. MayBind(req[s].dev) => ks \in SUBSET Kid
    <3>1. MayBind(req[s].dev) => rows[req[s].dev].keys \in SUBSET Kid
      BY <2>1 DEF MayBind, Exists, TInv, RowsOK, Row
    <3>2. req[s].wrapped # 0 => Keys(s) \in SUBSET Kid
      BY LifecycleAssumption DEF Keys, Kid, TInv, RequestsOK, Request
    <3> QED
      BY <3>1, <3>2
  <2> HIDE DEF ks
  <2>4. NoneBlocked
    BY <2>1, <2>2, <2>3, RowBound DEF NoneBlocked, Exists, Blocked
  <2> QED
    BY <2>1, <2>4, ToldNothing, ToldOneGoes DEF Ended
<1> QED
  BY <1>2, <1>3, <1>4, <1>5, <1>6

LEMMA ToldMarks ==
    ASSUME TInv, Told,
           \/ \E s \in Slot : Stamp(s)
           \/ \E r \in Token : Revoke(r)
    PROVE  Told'
<1>1. ASSUME NEW u \in Slot, NEW r \in Token, MarkedFrom(req'[u], req[u]),
             \A q \in Token \ {r} : rows'[q] = rows[q],
             \/ Exists(r)' /\ Blocked(r)' => Exists(r) /\ Blocked(r)
             \/ req[u].pc # "record" /\ r \in {req[u].dev, req[u].other} => req'[u].early
      PROVE  ToldOf(req[u])'
  <2>1. ToldOf(req[u]) /\ Placed(req[u])
    BY ToldAll DEF TInv, RequestsOK, RequestOK
  <2>2. /\ req[u].pc \in {"continuity", "bind", "serve"} => req[u].dev \in Token
        /\ req[u].pc \in {"drop", "put"} => req[u].other \in Token
    BY <2>1 DEF Placed, Working
  <2>3. /\ req'[u].pc = req[u].pc /\ req'[u].dev = req[u].dev /\ req'[u].other = req[u].other
        /\ req'[u].revoked = req[u].revoked /\ (req[u].early => req'[u].early)
    BY <1>1 DEF MarkedFrom
  <2>4. ASSUME NEW q \in Token, q # r, Exists(q)', Blocked(q)' PROVE Exists(q) /\ Blocked(q)
    BY <1>1, <2>4 DEF Exists, Blocked
  <2>5. ASSUME req'[u].pc \in {"continuity", "bind", "serve"}, Exists(req[u].dev)',
               Blocked(req[u].dev)'
        PROVE  req'[u].revoked \/ req'[u].early
    BY <1>1, <2>1, <2>2, <2>3, <2>4, <2>5 DEF ToldOf, Exists, Blocked
  <2>6. ASSUME req'[u].pc \in {"drop", "put"}, Exists(req[u].other)', Blocked(req[u].other)'
        PROVE  req'[u].early
    BY <1>1, <2>1, <2>2, <2>3, <2>4, <2>6 DEF ToldOf, Exists, Blocked
  <2> QED
    BY <2>5, <2>6 DEF ToldOf
<1>2. ASSUME NEW s \in Slot, Stamp(s) PROVE Told'
  <2>1. NoneBlocked
    BY <1>2, StampRow DEF Marked, NoneBlocked, Exists, Blocked
  <2>2. ASSUME NEW u \in Slot \ {s} PROVE ToldOf(req[u])'
    <3>1. req[s].dev \in Token /\ \A q \in Token \ {req[s].dev} : rows'[q] = rows[q]
      BY <1>2, StampDoes, StampRow DEF Marked
    <3> QED
      BY <1>1, <1>2, <2>1, <3>1, StampDoes DEF NoneBlocked
  <2>3. ToldOf(req[s])'
    <3>1. req'[s].pc = "free"
      BY <1>2, StampDoes DEF FreeReq
    <3> QED
      BY <3>1, ToldNothing
  <2> QED
    BY <2>2, <2>3 DEF Told, ToldOf
<1>3. ASSUME NEW r \in Token, Revoke(r) PROVE Told'
  <2>1. ASSUME NEW u \in Slot PROVE ToldOf(req[u])'
    <3>1. \A q \in Token \ {r} : rows'[q] = rows[q]
      BY <1>3, RevokeRow DEF Marked
    <3> QED
      BY <1>1, <1>3, <3>1, RevokeDoes
  <2> QED
    BY <2>1 DEF Told, ToldOf
<1> QED
  BY <1>2, <1>3

\* The machine tells no request anything.
LEMMA ToldMachine ==
    ASSUME TInv, Told, rows' = rows,
           \/ Freed
           \/ \E s \in Slot : Only(s) /\ req'[s].pc = "lookup"
    PROVE  Told'
<1>1. NoneBlocked
  BY DEF NoneBlocked, Exists, Blocked
<1>2. ASSUME Freed, NEW u \in Slot PROVE ToldOf(req[u])'
  <2>1. CASE req'[u] = req[u]
    <3>1. ToldOf(req[u])
      BY ToldAll
    <3> QED
      BY <2>1, <3>1 DEF ToldOf, Exists, Blocked
  <2>2. CASE req'[u] = FreeReq
    BY <2>2, ToldNothing DEF FreeReq
  <2> QED
    BY <1>2, <2>1, <2>2 DEF Freed
<1>3. ASSUME NEW s \in Slot, Only(s), req'[s].pc = "lookup" PROVE Told'
  BY <1>1, <1>3, ToldNothing, ToldOneGoes
<1>4. CASE Freed
  BY <1>2, <1>4 DEF Told, ToldOf
<1> QED
  BY <1>3, <1>4

\* What the machine's quiet steps do to the server: nothing, but that an answer goes.
LEMMA QuietDoes ==
    ASSUME TInv,
           \/ \E t \in Token : Install(t)
           \/ EditConfig \/ Start \/ TimeOut \/ Refused \/ Answered \/ Die \/ Left
    PROVE  Freed /\ UNCHANGED <<rows, ownerKey, stored, purged, spent>>
<1>1. UNCHANGED <<rows, ownerKey, stored, purged, spent>>
  BY DEF Install, EditConfig, Start, TimeOut, Refused, Answered, Die, Left, server, history
<1>2. req \in [Slot -> Request]
  BY DEF TInv, RequestsOK
<1>3. CASE (\E t \in Token : Install(t)) \/ EditConfig \/ Start
  <2>1. req' = req
    BY <1>3 DEF Install, EditConfig, Start, server
  <2> QED
    BY <1>1, <1>2, <2>1 DEF Freed
<1>4. CASE TimeOut \/ Refused \/ Die
  <2> SUFFICES Freed
    BY <1>1
  <2>1. coll # None /\ (coll.wait # None => coll.wait \in Slot)
    BY <1>4 DEF TimeOut, Refused, Die, TInv, MachineOK, CollOK, Life
  <2>2. CASE TimeOut
    BY <2>1, <2>2, FreedOne DEF TimeOut
  <2>3. CASE Refused
    BY <2>1, <2>3, FreedOne DEF Refused, Busy
  <2>4. CASE Die /\ coll.wait # None
    BY <2>1, <2>4, FreedOne DEF Die
  <2>5. CASE Die /\ coll.wait = None
    BY <1>2, <2>5 DEF Die, Freed
  <2> QED
    BY <1>1, <1>4, <2>2, <2>3, <2>4, <2>5
<1>5. CASE Answered
  BY <1>1, <1>5, AnsweredDoes
<1>6. CASE Left
  BY <1>1, <1>6, LeftFrees DEF Left
<1> QED
  BY <1>3, <1>4, <1>5, <1>6

LEMMA ToldStep == TInv /\ Told /\ [Next]_vars => Told'
<1> SUFFICES ASSUME TInv, Told, [Next]_vars PROVE Told'
  OBVIOUS
<1>1. CASE UNCHANGED vars
  BY <1>1, ToldMachine DEF vars, server, Freed, TInv, RequestsOK
<1>2. ASSUME NEW r \in Token, Restore(r) \/ Purge(r) PROVE Told'
  <2>1. req' = req /\ NoneBlocked
    <3>1. CASE Restore(r)
      BY <3>1, RestoreRow DEF Restore, Marked, NoneBlocked, Exists, Blocked
    <3>2. CASE Purge(r)
      BY <3>2 DEF Purge, NoneBlocked, Exists, Blocked, TInv, RowsOK
    <3> QED
      BY <1>2, <3>1, <3>2
  <2>2. ASSUME NEW u \in Slot PROVE ToldOf(req[u])'
    <3>1. ToldOf(req[u]) /\ Placed(req[u])
      BY ToldAll DEF TInv, RequestsOK, RequestOK
    <3>2. /\ req[u].pc \in {"continuity", "bind", "serve"} => req[u].dev \in Token
          /\ req[u].pc \in {"drop", "put"} => req[u].other \in Token
      BY <3>1 DEF Placed, Working
    <3> QED
      BY <2>1, <3>1, <3>2 DEF ToldOf, NoneBlocked
  <2> QED
    BY <2>2 DEF Told, ToldOf
<1>3. CASE SetOwnerKey
  BY <1>3, ToldMachine DEF SetOwnerKey, Freed, TInv, RequestsOK
<1>4. ASSUME NEW s \in Slot, Beat(s) \/ Post(s) \/ Leave(s) PROVE Told'
  <2>1. rows' = rows /\ Only(s) /\ req'[s].pc = "lookup"
    BY <1>4, BeatDoes, LeaveDoes DEF server
  <2> QED
    BY <2>1, ToldMachine
<1>5. CASE \/ \E t \in Token : Install(t)
           \/ EditConfig \/ Start \/ TimeOut \/ Refused \/ Answered \/ Die \/ Left
  BY <1>5, QuietDoes, ToldMachine
<1> QED
  BY <1>1, <1>2, <1>3, <1>4, <1>5, ToldReads, ToldWrites, ToldMarks DEF Next

LEMMA ToldInit == Init => Told
<1> SUFFICES ASSUME Init, NEW s \in Slot PROVE ToldOf(req[s])
  BY ToldAll
<1>1. req[s].pc = "free"
  BY DEF Init, FreeReq
<1> QED
  BY <1>1 DEF ToldOf

LEMMA TypedAndTold == Spec => [](TInv /\ Told)
<1>1. Init => TInv /\ Told
  BY TInvInit, ToldInit
<1>2. (TInv /\ Told) /\ [Next]_vars => (TInv /\ Told)'
  BY TInvStep, ToldStep
<1> QED
  BY <1>1, <1>2, PTL DEF Spec

\* Binding and recording write the row of the request.
LEMMA RowIsBound ==
    ASSUME TInv, NEW s \in Slot, Bind(s) \/ Record(s), req[s].dev \in Token, rows' # rows
    PROVE  /\ Bound \subseteq {req[s].dev} /\ Bound' = {req[s].dev}
           /\ \A q \in Token \ {req[s].dev} : rows'[q] = rows[q]
           /\ rows'[req[s].dev] \in Row
           /\ rows'[req[s].dev].revoked = rows[req[s].dev].revoked
<1> DEFINE ks == IF req[s].wrapped = 0 THEN rows[req[s].dev].keys ELSE Keys(s)
<1>1. MayBind(req[s].dev) => ks \in SUBSET Kid
  <2>1. MayBind(req[s].dev) => rows[req[s].dev].keys \in SUBSET Kid
    BY DEF MayBind, Exists, TInv, RowsOK, Row
  <2>2. req[s].wrapped # 0 => Keys(s) \in SUBSET Kid
    BY LifecycleAssumption DEF Keys, Kid, TInv, RequestsOK, Request
  <2> QED
    BY <2>1, <2>2
<1>2. /\ MayBind(req[s].dev)
      /\ \/ rows' = [rows EXCEPT ![req[s].dev].guid = TRUE]
         \/ rows' = [rows EXCEPT ![req[s].dev] = [@ EXCEPT !.guid = TRUE, !.keys = ks]]
  BY DEF Bind, Record
<1> HIDE DEF ks
<1> QED
  BY <1>1, <1>2, RowBound

\* A request that deletes the row of its token has found another row bound; until
\* the administrator deletes one, a bound row stays.
MoverFound(q) == q.pc = "drop" => q.other \in Bound /\ q.other # q.dev

MoversFound == purged = {} => \A s \in Slot : MoverFound(req[s])

\* No bound row has gone, and who is deleting a row was doing so before.
BoundStay ==
    /\ Bound \subseteq Bound'
    /\ \A u \in Slot : req'[u].pc = "drop" =>
          req[u].pc = "drop" /\ req'[u].other = req[u].other /\ req'[u].dev = req[u].dev

LEMMA BoundStayed ==
    ASSUME MoversFound, purged = {}, BoundStay
    PROVE  MoversFound'
BY DEF MoversFound, MoverFound, BoundStay

\* The requests that go on with the rows as they are.
LEMMA OneMoves ==
    ASSUME NEW s \in Slot, Only(s), req'[s].pc # "drop", Bound \subseteq Bound'
    PROVE  BoundStay
BY DEF BoundStay, Only

LEMMA MoversFoundStep == TInv /\ MoversFound /\ [Next]_vars => MoversFound'
<1> SUFFICES ASSUME TInv, MoversFound, [Next]_vars, purged' = {} PROVE MoversFound'
  BY DEF MoversFound
<1>1. purged = {}
  BY DEF Next, vars, history, Authenticate, Continuity, ContinuityLost, DropTokenRow, PutToken,
     Bind, Stamp, Serve, Record, Cut, Revoke, Restore, Purge, Install, SetOwnerKey, EditConfig,
     Start, Beat, Post, Leave, TimeOut, Refused, Answered, Die, Left
<1>2. rows' = rows => Bound' = Bound
  BY DEF Bound
<1>3. ASSUME NEW s \in Slot,
             Authenticate(s) \/ ContinuityLost(s) \/ Serve(s) \/ Cut(s)
      PROVE  BoundStay
  <2>1. rows' = rows
    BY <1>3 DEF Authenticate, ContinuityLost, Serve, Cut, server
  <2>2. Only(s) /\ req'[s].pc # "drop"
    BY <1>3, AuthenticateDoes, ContinuityLostDoes, ServeDoes, ReplyDoes DEF Goes, Ended, Cut, FreeReq
  <2> QED
    BY <1>2, <2>1, <2>2, OneMoves
<1>4. ASSUME NEW s \in Slot, Continuity(s) PROVE MoversFound'
  <2>1. Bound' = Bound
    BY <1>2, <1>4 DEF Continuity, server
  <2>2. CASE Goes(s) /\ req'[s].pc = "drop" /\ req'[s].other \in Found(s) /\ req'[s].dev = req[s].dev
    BY <1>1, <2>1, <2>2 DEF MoversFound, MoverFound, Goes, Only, Found
  <2>3. CASE ~(Goes(s) /\ req'[s].pc = "drop" /\ req'[s].other \in Found(s) /\ req'[s].dev = req[s].dev)
    <3>1. Only(s) /\ req'[s].pc # "drop"
      BY <1>4, <2>3, ContinuityDoes DEF Goes, Ended, FreeReq
    <3> QED
      BY <1>1, <2>1, <3>1, OneMoves, BoundStayed
  <2> QED
    BY <2>2, <2>3
<1>5. ASSUME NEW s \in Slot, DropTokenRow(s) PROVE BoundStay
  <2>1. req[s].pc = "drop" /\ Only(s) /\ req'[s].pc = "put"
    BY <1>5, DropTokenRowDoes DEF Goes
  <2>2. req[s].dev \notin Bound
    <3>1. req[s].other \in Bound /\ req[s].other # req[s].dev
      BY <1>1, <2>1 DEF MoversFound, MoverFound
    <3> QED
      BY <3>1 DEF TInv, RowsOK
  <2>3. \A r \in Bound : rows'[r] = rows[r]
    BY <1>5, <2>2 DEF DropTokenRow, Bound, TInv, RowsOK
  <2>4. Bound \subseteq Bound'
    BY <2>3 DEF Bound
  <2> QED
    BY <2>1, <2>4, OneMoves
<1>6. ASSUME NEW s \in Slot, PutToken(s) PROVE BoundStay
  <2>1. Only(s) /\ req'[s].pc = "serve"
    BY <1>6, PutTokenDoes DEF Goes
  <2>2. CASE rows' # rows
    <3>1. /\ req[s].other \in Token /\ Exists(req[s].other)
          /\ \A q \in Token \ {req[s].other} : rows'[q] = rows[q]
          /\ rows'[req[s].other] \in Row
          /\ rows'[req[s].other].guid = rows[req[s].other].guid
      BY <1>6, <2>2, PutRow
    <3>2. Bound \subseteq Bound'
      BY <3>1, LifecycleAssumption DEF Bound
    <3> QED
      BY <2>1, <3>2, OneMoves
  <2> QED
    BY <1>2, <2>1, <2>2, OneMoves
<1>7. ASSUME NEW s \in Slot, Bind(s) \/ Record(s) PROVE BoundStay
  <2>1. Only(s) /\ req'[s].pc # "drop"
    <3>1. CASE Bind(s)
      <4>1. req[s].pc = "bind" /\ Goto(s, "serve")
        BY <3>1 DEF Bind
      <4> QED
        BY <4>1, BindDoes DEF Goes
    <3>2. CASE Record(s)
      BY <3>2, RecordDoes DEF Ended
    <3> QED
      BY <1>7, <3>1, <3>2
  <2>2. req[s].dev \in Token
    BY <1>7 DEF Bind, Record, TInv, RequestsOK, RequestOK, Placed, Working
  <2>3. CASE rows' # rows
    <3>1. Bound \subseteq {req[s].dev} /\ Bound' = {req[s].dev}
      BY <1>7, <2>2, <2>3, RowIsBound
    <3> QED
      BY <2>1, <3>1, OneMoves
  <2> QED
    BY <1>2, <2>1, <2>3, OneMoves
<1>8. ASSUME NEW r \in Token, NEW gone, NEW revoked, Marked(r, gone, revoked)
      PROVE  Bound \subseteq Bound'
  BY <1>8, LifecycleAssumption DEF Marked, Bound
<1>9. ASSUME NEW s \in Slot, Stamp(s) PROVE BoundStay
  <2>1. Bound \subseteq Bound'
    BY <1>2, <1>8, <1>9, StampRow DEF Marked
  <2>2. \A u \in Slot : req'[u].pc = "drop" =>
            req[u].pc = "drop" /\ req'[u].other = req[u].other /\ req'[u].dev = req[u].dev
    BY <1>9, StampDoes DEF MarkedFrom, FreeReq
  <2> QED
    BY <2>1, <2>2 DEF BoundStay
<1>10. ASSUME NEW r \in Token, Revoke(r) PROVE BoundStay
  <2>1. Bound \subseteq Bound'
    BY <1>8, <1>10, RevokeRow
  <2> QED
    BY <1>10, <2>1, RevokeDoes DEF BoundStay, MarkedFrom
<1>11. ASSUME NEW r \in Token, Restore(r) PROVE BoundStay
  <2>1. Bound \subseteq Bound'
    BY <1>8, <1>11, RestoreRow
  <2> QED
    BY <1>11, <2>1 DEF BoundStay, Restore
<1>12. ASSUME NEW r \in Token, Purge(r) PROVE FALSE
  BY <1>12 DEF Purge
<1>13. ASSUME UNCHANGED vars \/ SetOwnerKey PROVE BoundStay
  BY <1>2, <1>13 DEF BoundStay, SetOwnerKey, vars, server
<1>14. ASSUME NEW s \in Slot, Beat(s) \/ Post(s) \/ Leave(s) PROVE BoundStay
  <2>1. rows' = rows /\ Only(s) /\ req'[s].pc = "lookup"
    BY <1>14, BeatDoes, LeaveDoes DEF server
  <2> QED
    BY <1>2, <2>1, OneMoves
<1>15. ASSUME \/ \E t \in Token : Install(t)
              \/ EditConfig \/ Start \/ TimeOut \/ Refused \/ Answered \/ Die \/ Left
       PROVE  BoundStay
  <2>1. Freed /\ rows' = rows
    BY <1>15, QuietDoes
  <2> QED
    BY <1>2, <2>1 DEF BoundStay, Freed, FreeReq
<1> QED
  BY <1>1, <1>3, <1>4, <1>5, <1>6, <1>7, <1>9, <1>10, <1>11, <1>12, <1>13, <1>14, <1>15,
     BoundStayed DEF Next

LEMMA MoversAlwaysFound == Spec => []MoversFound
<1>1. Init => MoversFound
  BY DEF Init, MoversFound, MoverFound, FreeReq
<1>2. (TInv /\ MoversFound) /\ [Next]_vars => MoversFound'
  BY MoversFoundStep
<1> QED
  BY <1>1, <1>2, TInvInit, TInvStep, PTL DEF Spec

\* What a step may do to the mark of a revoked row.
MarkKept ==
    \A r \in Bound :
        rows[r].revoked /\ ~rows[r].gone =>
            \/ rows'[r] # None /\ rows'[r].revoked
            \/ admins' = admins + 1
            \/ \E s \in Slot : req[s].pc = "put" /\ req[s].other = r /\ req[s].early
            \/ \E s \in Slot : req[s].pc = "drop" /\ req[s].dev = r /\ purged # {}

LEMMA MarkKeptStep == TInv /\ Told /\ MoversFound /\ [Next]_vars => MarkKept
<1> SUFFICES ASSUME TInv, Told, MoversFound, [Next]_vars,
                    NEW r \in Bound, rows[r].revoked, ~rows[r].gone,
                    rows'[r] # rows[r]
             PROVE  \/ rows'[r] # None /\ rows'[r].revoked
                    \/ admins' = admins + 1
                    \/ \E s \in Slot : req[s].pc = "put" /\ req[s].other = r /\ req[s].early
                    \/ \E s \in Slot : req[s].pc = "drop" /\ req[s].dev = r /\ purged # {}
  BY DEF MarkKept, Bound
<1> r \in Token
  BY DEF Bound
<1>1. Exists(r) /\ Blocked(r)
  BY LifecycleAssumption DEF Exists, Blocked, Bound
<1>2. ASSUME NEW s \in Slot, DropTokenRow(s)
      PROVE  req[s].pc = "drop" /\ req[s].dev = r /\ purged # {}
  <2>1. rows' = [rows EXCEPT ![req[s].dev] = None]
    BY <1>2 DEF DropTokenRow
  <2>2. req[s].pc = "drop" /\ req[s].dev = r
    BY <1>2, <2>1 DEF DropTokenRow, TInv, RowsOK
  <2>3. purged = {} => req[s].other \in Bound /\ req[s].other # r
    BY <2>2 DEF MoversFound, MoverFound
  <2> QED
    BY <2>2, <2>3 DEF TInv, RowsOK
<1>3. ASSUME NEW s \in Slot, PutToken(s)
      PROVE  req[s].pc = "put" /\ req[s].other = r /\ req[s].early
  <2>1. req[s].pc = "put" /\ ToldOf(req[s])
    BY <1>3, ToldAll DEF PutToken
  <2>2. rows' # rows
    OBVIOUS
  <2>3. req[s].other = r
    BY <1>3, <2>2, PutRow
  <2> QED
    BY <1>1, <2>1, <2>3 DEF ToldOf
<1>4. ASSUME NEW s \in Slot, Bind(s) \/ Record(s) PROVE rows'[r] # None /\ rows'[r].revoked
  <2>1. req[s].dev \in Token
    BY <1>4 DEF Bind, Record, TInv, RequestsOK, RequestOK, Placed, Working
  <2>2. rows' # rows
    OBVIOUS
  <2>3. /\ \A q \in Token \ {req[s].dev} : rows'[q] = rows[q]
        /\ rows'[req[s].dev] \in Row
        /\ rows'[req[s].dev].revoked = rows[req[s].dev].revoked
    BY <1>4, <2>1, <2>2, RowIsBound
  <2> QED
    BY <2>3, LifecycleAssumption
<1>5. ASSUME NEW s \in Slot, Stamp(s) PROVE rows'[r] # None /\ rows'[r].revoked
  BY <1>5, StampRow, LifecycleAssumption DEF Marked
<1>6. ASSUME NEW q \in Token, Revoke(q) PROVE rows'[r] # None /\ rows'[r].revoked
  BY <1>6, RevokeRow, LifecycleAssumption DEF Marked
<1>7. ASSUME NEW q \in Token, Restore(q) \/ Purge(q) PROVE admins' = admins + 1
  BY <1>7 DEF Restore, Purge, Admin
<1>8. ASSUME \/ UNCHANGED vars
             \/ \E s \in Slot : Authenticate(s) \/ Continuity(s) \/ ContinuityLost(s) \/ Serve(s)
                               \/ Cut(s) \/ Beat(s) \/ Post(s) \/ Leave(s)
             \/ SetOwnerKey
             \/ \E t \in Token : Install(t)
             \/ EditConfig \/ Start \/ TimeOut \/ Refused \/ Answered \/ Die \/ Left
      PROVE  FALSE
  <2>1. rows' = rows
    BY <1>8 DEF vars, server, Authenticate, Continuity, ContinuityLost, Serve, Cut, Beat, Post,
       Leave, SetOwnerKey, Install, EditConfig, Start, TimeOut, Refused, Answered, Die, Left
  <2> QED
    BY <2>1
<1> QED
  BY <1>2, <1>3, <1>4, <1>5, <1>6, <1>7, <1>8 DEF Next

\* The row bound to a machine keeps the administrator's revocation through every
\* re-install (index.ts:54-64), but for requests that had looked at it before, or at
\* another row of the machine he has deleted.  Not so a row the uninstaller has
\* marked, nor one revoked before it was bound (see RevocationKept).
THEOREM RevocationIsKept == Spec => RevocationKept
<1>1. TInv /\ Told /\ MoversFound /\ [Next]_vars => [MarkKept]_vars
  BY MarkKeptStep
<1>2. Spec => [][MarkKept]_vars
  BY <1>1, TypedAndTold, MoversAlwaysFound, PTL DEF Spec
<1> QED
  BY <1>2 DEF RevocationKept, MarkKept

\* What a step may store.
StoredKept ==
    \A e \in stored' \ stored :
        Exists(e.dev) /\ rows[e.dev].revoked /\ ~rows[e.dev].gone =>
            \E s \in Slot : req[s].pc = "serve" /\ req[s].dev = e.dev /\ req[s].early

LEMMA StoredKeptStep == TInv /\ Told /\ [Next]_vars => StoredKept
<1> SUFFICES ASSUME TInv, Told, [Next]_vars, NEW e \in stored' \ stored,
                    Exists(e.dev), Blocked(e.dev)
             PROVE  \E s \in Slot : req[s].pc = "serve" /\ req[s].dev = e.dev /\ req[s].early
  BY DEF StoredKept, Blocked
<1>1. PICK s \in Slot : Serve(s)
  BY DEF Next, vars, server, Authenticate, Continuity, ContinuityLost, DropTokenRow, PutToken,
     Bind, Stamp, Record, Cut, Revoke, Restore, Purge, Install, SetOwnerKey, EditConfig, Start,
     Beat, Post, Leave, TimeOut, Refused, Answered, Die, Left
<1>2. /\ req[s].pc = "serve" /\ Admits(s)
      /\ e = [dev |-> req[s].dev, kid |-> req[s].events]
  BY <1>1, ServeDoes
<1>3. e.dev = req[s].dev
  BY <1>2
<1>4. ToldOf(req[s])
  BY ToldAll
<1> QED
  BY <1>2, <1>3, <1>4 DEF ToldOf, Admits

\* The row of a blocked device gets no event, but from a request that had looked
\* at it before (index.ts:78-87).
THEOREM RevokedDeviceStoresNothing == Spec => RevokedStoresNothing
<1>1. TInv /\ Told /\ [Next]_vars => [StoredKept]_vars
  BY StoredKeptStep
<1>2. Spec => [][StoredKept]_vars
  BY <1>1, TypedAndTold, PTL DEF Spec
<1> QED
  BY <1>2 DEF RevokedStoresNothing, StoredKept

-----------------------------------------------------------------------------
(* While there was no mishap: what the requests in the function, the rows, *)
(* the events and the keys have to do with each other.                     *)

\* Every row is as it was but for its marks.
RowsSame ==
    \A r \in Token :
        /\ Exists(r)' <=> Exists(r)
        /\ Exists(r) => /\ rows'[r].token = rows[r].token
                        /\ rows'[r].guid = rows[r].guid /\ rows'[r].keys = rows[r].keys

\* A request is as it was, but for what it knows of a revocation.
Like(u) ==
    /\ req'[u].pc = req[u].pc /\ req'[u].token = req[u].token /\ req'[u].bye = req[u].bye
    /\ req'[u].wrapped = req[u].wrapped /\ req'[u].events = req[u].events
    /\ req'[u].dev = req[u].dev /\ req'[u].other = req[u].other /\ req'[u].keys = req[u].keys

\* A request has read nothing, or is over.
Idle(u) == req'[u].pc \in {"free", "lookup", "ok", "401", "error"}

\* No request has come.
NoneNew ==
    \A u \in Busy' :
        /\ u \in Busy /\ req'[u].token = req[u].token /\ req'[u].wrapped = req[u].wrapped
        /\ req'[u].events \in {0, req[u].events}

\* Who is moving a token still is.
PutsStay ==
    \A u \in Slot : req[u].pc = "put" =>
        req'[u].pc = "put" /\ req'[u].token = req[u].token /\ req'[u].other = req[u].other

\* The row of the machine keeps its keys.
KeysGrow == \A r \in Bound : r \in Bound' /\ rows[r].keys \subseteq rows'[r].keys

LEMMA ExistsRow ==
    ASSUME NEW r \in Token
    PROVE  /\ Exists(r) <=> rows[r] # None
           /\ Exists(r)' <=> rows'[r] # None
           /\ r \in Bound <=> Exists(r) /\ rows[r].guid
           /\ r \in Bound' <=> Exists(r)' /\ rows'[r].guid
BY LifecycleAssumption DEF Exists, Bound

LEMMA OneBound ==
    ASSUME TInv, NEW q \in Bound, NEW r \in Bound
    PROVE  q = r
BY DEF TInv, RowsOK

LEMMA OneToken ==
    ASSUME TInv, NEW q \in Token, NEW r \in Token, NEW t, Has(q, t), Has(r, t)
    PROVE  q = r
BY DEF TInv, RowsOK, Has

\* What a request at work holds.
LEMMA WorkingHolds ==
    ASSUME TInv, NEW u \in Slot
    PROVE  /\ req[u].pc \in Working <=> u \in Busy
           /\ u \in Busy => req[u].token \in Token
           /\ req[u].pc \in Working \ {"lookup"} => req[u].dev \in Token
           /\ req[u].pc \in {"drop", "put"} => req[u].other \in Token
           /\ req[u].bye => req[u].pc \in {"lookup", "serve"}
<1>1. req[u] \in Request /\ Placed(req[u])
  BY DEF TInv, RequestsOK, RequestOK
<1>2. req[u].pc \in Pc
  BY <1>1 DEF Request
<1>3. req[u].pc \in Working <=> u \in Busy
  BY <1>2 DEF Pc, Working, Busy
<1> QED
  BY <1>1, <1>3 DEF Placed

LEMMA BusyNext ==
    ASSUME NEW u \in Slot
    PROVE  /\ u \in Busy' <=> req'[u].pc \notin {"free", "ok", "401", "error"}
           /\ u \in Busy <=> req[u].pc \notin {"free", "ok", "401", "error"}
BY DEF Busy

LEMMA OneLifeFewer ==
    ASSUME OneLife, NoneNew
    PROVE  OneLife'
BY DEF OneLife, NoneNew

LEMMA RowsSameHas ==
    ASSUME RowsSame
    PROVE  /\ Bound' = Bound
           /\ \A r \in Token : \A t : Has(r, t)' <=> Has(r, t)
           /\ KeysGrow
<1>1. Bound' = Bound
  <2>1. \A r \in Token : r \in Bound' <=> r \in Bound
    BY ExistsRow DEF RowsSame
  <2>2. Bound \subseteq Token /\ Bound' \subseteq Token
    BY DEF Bound
  <2> QED
    BY <2>1, <2>2
<1>2. ASSUME NEW r \in Token, NEW t PROVE Has(r, t)' <=> Has(r, t)
  BY DEF RowsSame, Has
<1>3. KeysGrow
  BY <1>1, ExistsRow DEF RowsSame, KeysGrow, Bound
<1> QED
  BY <1>1, <1>2, <1>3

LEMMA MovedSame ==
    ASSUME TInv, RowsSame, PutsStay, NEW t, Moved(t)
    PROVE  Moved(t)'
<1>1. CASE \E b \in Bound : Has(b, t)
  BY <1>1, RowsSameHas DEF Moved, Bound
<1>2. CASE /\ \A r \in Token : ~Has(r, t)
           /\ \E s \in Slot : req[s].pc = "put" /\ req[s].other \in Bound
  BY <1>2, RowsSameHas DEF Moved, PutsStay
<1> QED
  BY <1>1, <1>2 DEF Moved

\* With the rows as they are, a request that goes on as it was fits them still.
LEMMA LikeFits ==
    ASSUME TInv, RowsSame, PutsStay, NEW u \in Slot, Like(u), RowRead(req[u]), KeysRead(req[u])
    PROVE  RowRead(req[u])' /\ KeysRead(req[u])'
<1>1. /\ req[u].pc \in Working \ {"lookup"} => req[u].dev \in Token
      /\ req[u].pc \in {"drop", "put"} => req[u].other \in Token
  BY WorkingHolds
<1>2. RowRead(req[u])'
  BY <1>1, RowsSameHas, MovedSame DEF RowRead, Like, RowsSame, Working
<1>3. req[u].pc \in Working \ {"lookup"} => Target(req[u]) \in Token
  BY <1>1 DEF Target
<1>4. Target(req[u])' = Target(req[u])
  BY DEF Target, Like
<1>5. KeysRead(req[u])'
  BY <1>3, <1>4 DEF KeysRead, Like, RowsSame
<1> QED
  BY <1>2, <1>5

LEMMA IdleFits ==
    ASSUME NEW u \in Slot, Idle(u)
    PROVE  RowRead(req[u])' /\ KeysRead(req[u])'
BY DEF Idle, RowRead, KeysRead, Working

LEMMA TokensSame ==
    ASSUME TokenAlive, RowsSame, PutsStay, spent \subseteq spent'
    PROVE  TokenAlive'
<1> SUFFICES ASSUME NEW t \in Token
             PROVE  \/ \E r \in Token : Has(r, t)'
                    \/ \E s \in Slot : req'[s].pc = "put" /\ req'[s].token = t
                    \/ t \in spent'
  BY DEF TokenAlive, Has
<1> QED
  BY RowsSameHas DEF TokenAlive, PutsStay

LEMMA EventsSame ==
    ASSUME TInv, EventsPlaced, RowsSame, stored' = stored, purged \subseteq purged'
    PROVE  EventsPlaced'
<1>1. \A e \in stored : e.dev \in Token
  BY DEF TInv, RestOK
<1> QED
  BY <1>1, RowsSameHas DEF EventsPlaced, RowsSame

\* A key is held on when the machine's row keeps it.
LEMMA HeldOn ==
    ASSUME TInv, KeysGrow, config' = config, dropped \subseteq dropped', NEW k, Held(k)
    PROVE  Held(k)'
BY DEF Held, KeysGrow

\* The keys, when the machine does nothing.
LEMMA KeysHeldOn ==
    ASSUME TInv, KeysHeld, KeysGrow, NoneNew, UNCHANGED <<config, coll>>, dropped \subseteq dropped',
           \A r \in Token : Exists(r)' /\ rows'[r].keys # {} => rows'[r].guid,
           \A e \in stored' : e \in stored \/ Held(e.kid)
    PROVE  KeysHeld'
<1>1. \A e \in stored' : Held(e.kid)'
  BY HeldOn DEF KeysHeld
<1>2. ASSUME NEW s \in Busy', req'[s].events # 0 PROVE Held(req[s].events)'
  BY <1>2, HeldOn DEF KeysHeld, NoneNew, Held
<1>3. coll' # None /\ coll'.dek # 0 => Held(coll.dek)'
  BY HeldOn DEF KeysHeld
<1> QED
  BY <1>1, <1>2, <1>3 DEF KeysHeld

\* Everything but the requests' fit, when rows, events and files stay.
LEMMA StillFits ==
    ASSUME TInv, Fits, RowsSame, PutsStay, NoneNew,
           UNCHANGED <<stored, config, coll, purged, dropped>>, spent \subseteq spent',
           \A u \in Slot : RowRead(req[u])' /\ KeysRead(req[u])'
    PROVE  Fits'
<1>1. OneLife'
  BY OneLifeFewer DEF Fits
<1>2. TokenAlive' /\ EventsPlaced'
  BY TokensSame, EventsSame DEF Fits
<1>3. KeysHeld'
  <2>1. \A r \in Token : Exists(r)' /\ rows'[r].keys # {} => rows'[r].guid
    BY DEF Fits, KeysHeld, RowsSame
  <2> QED
    BY <2>1, RowsSameHas, KeysHeldOn DEF Fits
<1>4. RequestsFit'
  BY DEF RequestsFit
<1> QED
  BY <1>1, <1>2, <1>3, <1>4 DEF Fits

\* One request goes on or is over: the others are as they were.
LEMMA OneGoes ==
    ASSUME TInv, NEW s \in Slot, s \in Busy,
           \/ Goes(s) /\ req'[s].events \in {0, req[s].events}
           \/ \E status \in {"ok", "401", "error"} : Ended(s, status)
    PROVE  /\ NoneNew
           /\ \A u \in Slot \ {s} : Like(u) /\ req'[u] = req[u]
           /\ (\E status \in {"ok", "401", "error"} : Ended(s, status)) => Idle(s)
           /\ req[s].pc # "put" => PutsStay
<1>1. \A u \in Slot \ {s} : req'[u] = req[u]
  BY DEF Goes, Ended, Only
<1>2. \A u \in Slot \ {s} : Like(u)
  BY <1>1 DEF Like
<1>3. ASSUME NEW u \in Busy'
      PROVE  /\ u \in Busy /\ req'[u].token = req[u].token /\ req'[u].wrapped = req[u].wrapped
             /\ req'[u].events \in {0, req[u].events}
  <2>1. u \in Slot
    BY DEF Busy
  <2>2. CASE u = s
    BY <2>1, <2>2, BusyNext DEF Goes, Ended
  <2>3. CASE u # s
    BY <1>1, <2>1, <2>3, BusyNext
  <2> QED
    BY <2>2, <2>3
<1>4. (\E status \in {"ok", "401", "error"} : Ended(s, status)) => Idle(s)
  BY DEF Ended, Idle
<1>5. req[s].pc # "put" => PutsStay
  BY <1>1 DEF PutsStay
<1> QED
  BY <1>1, <1>2, <1>3, <1>4, <1>5 DEF NoneNew

\* The requests that read, or are cut off.
LEMMA ReadKeeps ==
    ASSUME TInv, Fits, ~mishap, ~mishap', NEW s \in Slot,
           Authenticate(s) \/ Continuity(s) \/ Cut(s)
    PROVE  Fits'
<1>1. UNCHANGED <<rows, stored, config, coll, purged, spent, dropped>>
  BY DEF Authenticate, Continuity, Cut, server, machine, history
<1>2. RowsSame
  BY <1>1 DEF RowsSame, Exists
<1>3. /\ s \in Busy /\ req[s].pc # "put"
      /\ \/ Goes(s) /\ req'[s].events = req[s].events
         \/ \E status \in {"ok", "401", "error"} : Ended(s, status)
  <2>1. CASE Authenticate(s)
    BY <2>1, AuthenticateDoes, BusyNext
  <2>2. CASE Continuity(s)
    BY <2>2, ContinuityDoes, BusyNext
  <2>3. CASE Cut(s)
    <3>1. Ended(s, "error") /\ s \in Busy /\ req[s].pc # "put"
      BY <2>3, ReplyDoes DEF Cut
    <3> QED
      BY <3>1
  <2> QED
    BY <2>1, <2>2, <2>3
<1>4. PutsStay /\ NoneNew /\ \A u \in Slot \ {s} : Like(u)
  BY <1>3, OneGoes
<1>5. \A u \in Slot : RowRead(req[u]) /\ KeysRead(req[u])
  BY DEF Fits, RequestsFit
<1>6. \A u \in Slot \ {s} : RowRead(req[u])' /\ KeysRead(req[u])'
  BY <1>2, <1>4, <1>5, LikeFits
<1>7. RowRead(req[s])' /\ KeysRead(req[s])'
  <2>1. CASE Idle(s)
    BY <2>1, IdleFits
  <2>2. CASE Authenticate(s) /\ ~Idle(s)
    <3>1. /\ Goes(s) /\ Has(req'[s].dev, req[s].token)
          /\ req'[s].keys = rows[req'[s].dev].keys
          /\ req'[s].pc = IF req[s].bye THEN "serve" ELSE "continuity"
      BY <1>3, <2>2, OneGoes, AuthenticateDoes
    <3>2. req'[s].token = req[s].token /\ req'[s].bye = req[s].bye
      BY <3>1 DEF Goes
    <3>3. RowRead(req[s])'
      BY <1>1, <3>1, <3>2 DEF RowRead, Has, Exists
    <3>4. KeysRead(req[s])'
      BY <1>1, <3>1, <3>2 DEF KeysRead, Target
    <3> QED
      BY <3>3, <3>4
  <2>3. CASE Continuity(s) /\ ~Idle(s)
    <3>1. /\ Goes(s) /\ req[s].pc = "continuity"
          /\ req'[s].dev = req[s].dev /\ req[s].dev \in Token
          /\ \/ /\ req'[s].pc = "drop" /\ req'[s].other \in Found(s)
                /\ req'[s].keys = rows[req'[s].other].keys
             \/ /\ Found(s) = {} /\ req'[s].pc \in {"serve", "bind"}
                /\ req'[s].keys = req[s].keys
      BY <1>3, <2>3, OneGoes, ContinuityDoes, WorkingHolds DEF Working
    <3>2. req'[s].token = req[s].token /\ req'[s].bye = req[s].bye /\ req'[s].wrapped = req[s].wrapped
      BY <3>1 DEF Goes
    <3>3. ~req[s].bye
      BY <3>1, WorkingHolds
    <3>4. CASE req'[s].pc = "drop"
      <4>1. req'[s].other \in Bound /\ req'[s].other # req'[s].dev
        BY <3>1, <3>4 DEF Found
      <4>2. RowRead(req[s])'
        BY <1>1, <1>5, <3>1, <3>2, <3>4, <4>1 DEF RowRead, Has, Exists, Bound
      <4>3. KeysRead(req[s])'
        BY <1>1, <3>1, <3>4 DEF KeysRead, Target
      <4> QED
        BY <4>2, <4>3
    <3>5. CASE req'[s].pc # "drop"
      <4>1. Bound \subseteq {req[s].dev}
        BY <3>1, <3>5 DEF Found
      <4>2. Has(req[s].dev, req[s].token) \/ req[s].dev \in Bound
        BY <1>5, <3>1, <4>1 DEF RowRead, Moved
      <4>3. RowRead(req[s])'
        BY <1>1, <3>1, <3>2, <3>5, <4>1, <4>2 DEF RowRead, Has, Exists, Bound
      <4>4. KeysRead(req[s])'
        BY <1>1, <1>5, <3>1, <3>2, <3>3, <3>5 DEF KeysRead, Target, Working, Exists
      <4> QED
        BY <4>3, <4>4
    <3> QED
      BY <3>4, <3>5
  <2>4. Cut(s) => Idle(s)
    BY <1>3, OneGoes, ReplyDoes DEF Cut
  <2> QED
    BY <2>1, <2>2, <2>3, <2>4
<1>8. \A u \in Slot : RowRead(req[u])' /\ KeysRead(req[u])'
  BY <1>6, <1>7
<1> QED
  BY <1>1, <1>2, <1>4, <1>8, StillFits

\* The row of the new token goes.
LEMMA DropKeeps ==
    ASSUME TInv, Fits, NEW s \in Slot, DropTokenRow(s)
    PROVE  Fits'
<1>0. PICK d \in Token, o \in Token, t \in Token :
          req[s].dev = d /\ req[s].other = o /\ req[s].token = t
  BY DropTokenRowDoes, WorkingHolds, BusyNext DEF Working
<1>1. /\ req[s].pc = "drop" /\ Goes(s) /\ req'[s].pc = "put"
      /\ req'[s].other = o /\ req'[s].keys = req[s].keys /\ req'[s].dev = d
      /\ req'[s].events = req[s].events
      /\ req'[s].token = t /\ req'[s].bye = req[s].bye /\ req'[s].wrapped = req[s].wrapped
  BY <1>0, DropTokenRowDoes DEF Goes
<1>2. d \in Token /\ o \in Token /\ t \in Token /\ s \in Busy /\ ~req[s].bye
  BY <1>1, WorkingHolds, BusyNext DEF Working
<1>3. UNCHANGED <<stored, config, coll, purged, spent, dropped>>
  BY DEF DropTokenRow, machine, history
<1>4. PutsStay /\ NoneNew /\ \A u \in Slot \ {s} : Like(u) /\ req'[u] = req[u]
  BY <1>1, <1>2, OneGoes
<1>5. \A u \in Slot : RowRead(req[u]) /\ KeysRead(req[u])
  BY DEF Fits, RequestsFit
<1>6. o \in Bound /\ o # d /\ Bound = {o} /\ d \notin Bound /\ (Exists(d) => Has(d, t))
  BY <1>0, <1>1, <1>5, OneBound DEF RowRead
<1>7. CASE rows' = rows
  <2>1. RowsSame
    BY <1>7 DEF RowsSame, Exists
  <2>2. RowRead(req[s])' /\ KeysRead(req[s])'
    <3>1. RowRead(req[s])'
      BY <1>0, <1>1, <1>5, <1>6, <1>7 DEF RowRead, Has, Exists, Bound
    <3>2. KeysRead(req[s])'
      BY <1>0, <1>1, <1>2, <1>5, <1>7 DEF KeysRead, Target, Working, Exists
    <3> QED
      BY <3>1, <3>2
  <2>3. \A u \in Slot : RowRead(req[u])' /\ KeysRead(req[u])'
    BY <1>4, <1>5, <2>1, <2>2, LikeFits
  <2> QED
    BY <1>3, <1>4, <2>1, <2>3, StillFits
<1>8. CASE rows' # rows
  <2>1. rows' = [rows EXCEPT ![d] = None]
    BY <1>0, <1>8 DEF DropTokenRow
  <2>2. rows'[d] = None /\ \A r \in Token \ {d} : rows'[r] = rows[r]
    BY <1>2, <2>1 DEF TInv, RowsOK
  <2>3. ~Exists(d)' /\ \A r \in Token \ {d} : Exists(r)' <=> Exists(r)
    BY <2>2 DEF Exists
  <2>4. Exists(d) /\ Has(d, t)
    <3>1. rows \in [Token -> Row \cup {None}]
      BY DEF TInv, RowsOK
    <3>2. rows[d] # None
      BY <1>8, <2>1, <3>1
    <3> QED
      BY <1>2, <1>6, <3>2, ExistsRow
  <2>5. Bound' = {o}
    <3>1. \A r \in Token : r \in Bound' <=> r \in Bound
      BY <1>6, <2>2, <2>3, ExistsRow
    <3> QED
      BY <1>6, <3>1 DEF Bound
  <2>6. \A r \in Token : ~Has(r, t)'
    BY <1>2, <2>2, <2>3, <2>4, OneToken DEF Has
  <2>7. \A r \in Token \ {d} : \A x : Has(r, x)' <=> Has(r, x)
    BY <2>2, <2>3 DEF Has
  <2>8. RowRead(req[s])' /\ KeysRead(req[s])'
    <3>1. RowRead(req[s])'
      BY <1>1, <1>6, <2>3, <2>5 DEF RowRead
    <3>2. KeysRead(req[s])'
      BY <1>0, <1>1, <1>2, <1>5, <1>6, <2>2, <2>3 DEF KeysRead, Target, Working
    <3> QED
      BY <3>1, <3>2
  <2>9. ASSUME NEW u \in Slot \ {s} PROVE RowRead(req[u])' /\ KeysRead(req[u])'
    <3>1. req'[u] = req[u] /\ RowRead(req[u]) /\ KeysRead(req[u])
      BY <1>4, <1>5
    <3>2. /\ req[u].pc \in Working \ {"lookup"} => req[u].dev \in Token /\ req[u].token = t
          /\ req[u].pc \in {"drop", "put"} => req[u].other \in Token
      BY <1>0, <1>2, WorkingHolds DEF Fits, OneLife, Working
    <3>3. ASSUME req[u].pc \in {"continuity", "drop", "put"}, Exists(req[u].dev)'
          PROVE  Has(req[u].dev, req[u].token)'
      BY <2>3, <2>7, <3>1, <3>2, <3>3 DEF RowRead, Working
    <3>4. req[u].pc = "continuity" => Moved(req[u].token)'
      BY <1>1, <2>5, <2>6, <3>1, <3>2 DEF Moved, Working
    <3>5. req[u].pc \in {"drop", "put"} => req[u].other \in Bound' /\ req[u].other # req[u].dev
      BY <1>6, <2>5, <3>1 DEF RowRead
    <3>6. req[u].pc \in {"bind", "serve", "record"} /\ ~req[u].bye => req[u].dev = o
      BY <1>6, <3>1 DEF RowRead
    <3>7. RowRead(req[u])'
      BY <2>5, <3>1, <3>3, <3>4, <3>5, <3>6 DEF RowRead
    <3>8. KeysRead(req[u])'
      BY <2>2, <2>3, <3>1, <3>2 DEF KeysRead, Target, Working
    <3> QED
      BY <3>7, <3>8
  <2>10. TokenAlive'
    <3>1. ASSUME NEW x \in Token
          PROVE  \/ \E r \in Token : Has(r, x)'
                 \/ \E u \in Slot : req'[u].pc = "put" /\ req'[u].token = x
                 \/ x \in spent'
      <4>1. CASE x = t
        BY <1>1, <4>1
      <4>2. CASE x # t
        <5>1. ~Has(d, x)
          BY <2>4, <4>2 DEF Has
        <5> QED
          BY <1>3, <1>4, <2>7, <5>1 DEF Fits, TokenAlive, PutsStay
      <4> QED
        BY <4>1, <4>2
    <3> QED
      BY <3>1 DEF TokenAlive
  <2>11. EventsPlaced'
    <3>1. ASSUME NEW e \in stored
          PROVE  /\ Exists(e.dev)' \/ e.dev \in purged
                 /\ Exists(e.dev)' => Bound' \subseteq {e.dev}
      <4>1. e.dev \in Token
        BY DEF TInv, RestOK
      <4>2. e.dev # d
        BY <1>6, <2>4 DEF Fits, EventsPlaced
      <4> QED
        BY <1>6, <2>3, <2>5, <4>1, <4>2 DEF Fits, EventsPlaced
    <3> QED
      BY <1>3, <3>1 DEF EventsPlaced
  <2>12. KeysHeld'
    <3>1. KeysGrow
      BY <1>6, <2>2, <2>5 DEF KeysGrow, Bound
    <3>2. \A r \in Token : Exists(r)' /\ rows'[r].keys # {} => rows'[r].guid
      BY <2>2, <2>3 DEF Fits, KeysHeld
    <3> QED
      BY <1>3, <1>4, <3>1, <3>2, KeysHeldOn DEF Fits
  <2>13. OneLife'
    BY <1>4, OneLifeFewer DEF Fits
  <2>14. RequestsFit'
    BY <2>8, <2>9 DEF RequestsFit
  <2> QED
    BY <2>10, <2>11, <2>12, <2>13, <2>14 DEF Fits
<1> QED
  BY <1>7, <1>8

\* The token is put on the row of the machine.
LEMMA PutKeeps ==
    ASSUME TInv, Fits, ~mishap, ~mishap', NEW s \in Slot, PutToken(s)
    PROVE  Fits'
<1>0. PICK d \in Token, o \in Token, t \in Token :
          req[s].dev = d /\ req[s].other = o /\ req[s].token = t
  BY PutTokenDoes, WorkingHolds, BusyNext DEF Working
<1>1. /\ req[s].pc = "put" /\ Goes(s) /\ req'[s].pc = "serve"
      /\ req'[s].dev = o /\ req'[s].keys = req[s].keys /\ req'[s].events = req[s].events
      /\ req'[s].token = t /\ req'[s].bye = req[s].bye /\ req'[s].wrapped = req[s].wrapped
  BY <1>0, PutTokenDoes DEF Goes
<1>2. s \in Busy /\ ~req[s].bye
  BY <1>1, WorkingHolds, BusyNext
<1>3. UNCHANGED <<stored, config, coll, purged, dropped>>
  BY DEF PutToken, machine
<1>4. NoneNew /\ \A u \in Slot \ {s} : Like(u) /\ req'[u] = req[u]
  BY <1>1, <1>2, OneGoes
<1>5. \A u \in Slot : RowRead(req[u]) /\ KeysRead(req[u])
  BY DEF Fits, RequestsFit
<1>6. o \in Bound /\ o # d /\ Bound = {o} /\ Exists(o)
  BY <1>0, <1>1, <1>5, OneBound, ExistsRow DEF RowRead
\* Either the row o has the token now, or another row has it and had it.
<1>7. /\ \A r \in Token : Exists(r)' <=> Exists(r)
      /\ \A r \in Token : Exists(r) => rows'[r].guid = rows[r].guid /\ rows'[r].keys = rows[r].keys
      /\ \A r \in Token \ {o} : rows'[r] = rows[r]
      /\ \/ rows'[o].token = t /\ (\A r \in Token \ {o} : ~Has(r, t))
            /\ spent' = spent \cup ({rows[o].token} \ {t})
         \/ rows' = rows /\ spent' = spent /\ \E r \in Token \ {o} : Has(r, t)
  <2>1. CASE rows' # rows
    <3>1. /\ \A q \in Token \ {o} : ~Has(q, t) /\ rows'[q] = rows[q]
          /\ rows'[o] \in Row
          /\ rows'[o].token = t /\ rows'[o].guid = rows[o].guid
          /\ rows'[o].keys = rows[o].keys
          /\ spent' = spent \cup ({rows[o].token} \ {t})
      BY <1>0, <2>1, PutRow
    <3>2. rows'[o] # None
      BY <3>1, LifecycleAssumption
    <3> QED
      BY <1>6, <3>1, <3>2, ExistsRow
  <2>2. CASE rows' = rows
    <3>1. /\ \A r \in Token : Exists(r)' <=> Exists(r)
          /\ \A r \in Token : Exists(r) => rows'[r].guid = rows[r].guid /\ rows'[r].keys = rows[r].keys
          /\ \A r \in Token \ {o} : rows'[r] = rows[r]
      BY <2>2 DEF Exists
    <3>2. CASE Exists(o) /\ \A q \in Token \ {o} : rows[q] = None \/ rows[q].token # t
      <4>1. rows' = Put(o, t) /\ spent' = spent \cup ({rows[o].token} \ {t})
        BY <1>0, <3>2 DEF PutToken
      <4>2. rows[o] \in Row
        BY <1>6, ExistsRow DEF TInv, RowsOK
      <4>3. [rows[o] EXCEPT !.token = t, !.gone = FALSE, !.revoked = FALSE].token = t
        BY <4>2, SMT DEF Row
      <4>4. rows'[o].token = t
        BY <4>1, <4>3 DEF Put, TInv, RowsOK
      <4> QED
        BY <3>1, <3>2, <4>1, <4>4 DEF Has, Exists
    <3>3. CASE ~(Exists(o) /\ \A q \in Token \ {o} : rows[q] = None \/ rows[q].token # t)
      <4>1. spent' = spent
        BY <1>0, <3>3 DEF PutToken
      <4>2. PICK q \in Token \ {o} : rows[q] # None /\ rows[q].token = t
        BY <1>6, <3>3
      <4>3. Has(q, t)
        BY <4>2, ExistsRow DEF Has
      <4> QED
        BY <2>2, <3>1, <4>1, <4>3
    <3> QED
      BY <3>2, <3>3
  <2> QED
    BY <2>1, <2>2
<1>8. Bound' = {o}
  <2>1. \A r \in Token : r \in Bound' <=> r \in Bound
    BY <1>7, ExistsRow
  <2> QED
    BY <1>6, <2>1 DEF Bound
<1>9. \A r \in Token \ {o} : \A x : Has(r, x)' <=> Has(r, x)
  BY <1>7 DEF Has
<1>10. Has(o, t)' \/ (rows' = rows /\ spent' = spent /\ \E r \in Token \ {o} : Has(r, t))
  BY <1>6, <1>7 DEF Has
<1>11. RowRead(req[s])' /\ KeysRead(req[s])'
  <2>1. RowRead(req[s])'
    BY <1>1, <1>8 DEF RowRead
  <2>2. KeysRead(req[s])'
    BY <1>0, <1>1, <1>2, <1>5, <1>6, <1>7 DEF KeysRead, Target, Working
  <2> QED
    BY <2>1, <2>2
<1>12. ASSUME NEW u \in Slot \ {s} PROVE RowRead(req[u])' /\ KeysRead(req[u])'
  <2>1. req'[u] = req[u] /\ RowRead(req[u]) /\ KeysRead(req[u])
    BY <1>4, <1>5
  <2>2. /\ req[u].pc \in Working \ {"lookup"} => req[u].dev \in Token /\ req[u].token = t
        /\ req[u].pc \in {"drop", "put"} => req[u].other \in Token
    BY <1>0, <1>2, WorkingHolds DEF Fits, OneLife, Working
  <2>3. ASSUME req[u].pc \in {"continuity", "drop", "put"}, Exists(req[u].dev)
        PROVE  Has(req[u].dev, t)'
    <3>1. req[u].dev \in Token /\ Has(req[u].dev, t)
      BY <2>1, <2>2, <2>3 DEF RowRead, Working
    <3>2. CASE req[u].dev = o
      <4>1. Has(o, t)'
        BY <1>10, <3>1, <3>2, OneToken
      <4> QED
        BY <2>1, <3>2, <4>1 DEF Has
    <3>3. CASE req[u].dev # o
      BY <1>9, <2>1, <3>1, <3>3 DEF Has
    <3> QED
      BY <3>2, <3>3
  <2>4. req[u].pc = "continuity" /\ ~Exists(req[u].dev) => Moved(t)'
    <3>1. CASE Has(o, t)'
      BY <1>8, <3>1 DEF Moved
    <3>2. CASE rows' = rows /\ \E r \in Token \ {o} : Has(r, t)
      BY <1>8, <2>1, <2>2, <3>2 DEF RowRead, Moved, Has, Exists, Bound, Working
    <3> QED
      BY <1>10, <3>1, <3>2
  <2>5. req[u].pc \in {"drop", "put"} => req[u].other \in Bound' /\ req[u].other # req[u].dev
    BY <1>6, <1>8, <2>1 DEF RowRead
  <2>6. req[u].pc \in {"bind", "serve", "record"} /\ ~req[u].bye => req[u].dev = o
    BY <1>6, <2>1 DEF RowRead
  <2>7. req[u].pc \in Working \ {"lookup"} => (Exists(req[u].dev)' <=> Exists(req[u].dev))
    BY <1>7, <2>1, <2>2
  <2>8. RowRead(req[u])'
    BY <1>8, <2>1, <2>2, <2>3, <2>4, <2>5, <2>6, <2>7 DEF RowRead, Working
  <2>9. KeysRead(req[u])'
    <3>1. req[u].pc \in Working \ {"lookup"} => Target(req[u]) \in Token
      BY <2>2 DEF Target
    <3>2. Target(req[u])' = Target(req[u])
      BY <2>1 DEF Target
    <3> QED
      BY <1>7, <2>1, <3>1, <3>2 DEF KeysRead
  <2> QED
    BY <2>8, <2>9
<1>13. TokenAlive'
  <2>1. ASSUME NEW x \in Token
        PROVE  \/ \E r \in Token : Has(r, x)'
               \/ \E u \in Slot : req'[u].pc = "put" /\ req'[u].token = x
               \/ x \in spent'
    <3>1. CASE x = t
      BY <1>9, <1>10, <3>1
    <3>2. CASE x # t /\ \E r \in Token \ {o} : Has(r, x)
      BY <1>9, <3>2
    <3>3. CASE x # t /\ Has(o, x)
      <4>1. rows[o].token = x
        BY <3>3 DEF Has
      <4>2. x \in spent' \/ rows' = rows
        BY <1>7, <3>3, <4>1
      <4> QED
        BY <3>3, <4>2 DEF Has, Exists
    <3>4. CASE x # t /\ \E u \in Slot : req[u].pc = "put" /\ req[u].token = x
      BY <1>0, <1>4, <3>4
    <3>5. CASE x \in spent
      BY <1>7, <3>5
    <3> QED
      BY <3>1, <3>2, <3>3, <3>4, <3>5 DEF Fits, TokenAlive
  <2> QED
    BY <2>1 DEF TokenAlive
<1>14. EventsPlaced'
  <2>1. \A e \in stored : e.dev \in Token
    BY DEF TInv, RestOK
  <2> QED
    BY <1>3, <1>6, <1>7, <1>8, <2>1 DEF Fits, EventsPlaced
<1>15. KeysHeld'
  <2>1. KeysGrow
    BY <1>6, <1>7, <1>8 DEF KeysGrow
  <2>2. \A r \in Token : Exists(r)' /\ rows'[r].keys # {} => rows'[r].guid
    BY <1>7 DEF Fits, KeysHeld
  <2> QED
    BY <1>3, <1>4, <2>1, <2>2, KeysHeldOn DEF Fits
<1>16. OneLife'
  BY <1>4, OneLifeFewer DEF Fits
<1>17. RequestsFit'
  BY <1>11, <1>12 DEF RequestsFit
<1> QED
  BY <1>13, <1>14, <1>15, <1>16, <1>17 DEF Fits

\* What binding and recording do to the rows.
LEMMA BindRow ==
    ASSUME TInv, ~mishap', NEW s \in Slot, Bind(s) \/ Record(s),
           NEW d \in Token, req[s].dev = d
    PROVE  \/ rows' = rows
           \/ /\ Exists(d) /\ Bound \subseteq {d} /\ Bound' = {d} /\ ~Strays(d)
              /\ \A r \in Token : Exists(r)' <=> Exists(r)
              /\ \A r \in Token \ {d} : rows'[r] = rows[r]
              /\ rows'[d].guid /\ rows'[d].token = rows[d].token
              /\ \/ rows'[d].keys = rows[d].keys
                 \/ req[s].pc = "record" /\ req[s].wrapped # 0 /\ rows'[d].keys = Keys(s)
<1> DEFINE ks == IF req[s].wrapped = 0 THEN rows[d].keys ELSE Keys(s)
<1>1. MayBind(d) => ks \in SUBSET Kid
  <2>1. MayBind(d) => rows[d].keys \in SUBSET Kid
    BY DEF MayBind, Exists, TInv, RowsOK, Row
  <2>2. req[s].wrapped # 0 => Keys(s) \in SUBSET Kid
    BY LifecycleAssumption DEF Keys, Kid, TInv, RequestsOK, Request
  <2> QED
    BY <2>1, <2>2
<1>2. CASE rows' # rows
  <2>1. /\ MayBind(req[s].dev) /\ ~Strays(d)
        /\ \/ rows' = [rows EXCEPT ![req[s].dev].guid = TRUE]
           \/ rows' = [rows EXCEPT ![req[s].dev] = [@ EXCEPT !.guid = TRUE, !.keys = ks]]
    BY <1>2 DEF Bind, Record
  <2>2. ks = rows[d].keys \/ (req[s].wrapped # 0 /\ ks = Keys(s))
    OBVIOUS
  <2>3. Bind(s) => rows' = [rows EXCEPT ![d].guid = TRUE]
    BY <1>2 DEF Bind
  <2> HIDE DEF ks
  <2>4. /\ Bound \subseteq {d} /\ Bound' = {d}
        /\ \A q \in Token \ {d} : rows'[q] = rows[q]
        /\ Exists(d) /\ rows'[d] \in Row
        /\ rows'[d].guid
        /\ rows'[d].token = rows[d].token
        /\ rows'[d].keys = rows[d].keys \/ rows'[d].keys = ks
    BY <1>1, <2>1, RowBound
  <2>5. \A r \in Token : Exists(r)' <=> Exists(r)
    BY <2>4, ExistsRow
  <2>6. CASE Record(s)
    <3>1. req[s].pc = "record"
      BY <2>6 DEF Record
    <3> QED
      BY <2>1, <2>2, <2>4, <2>5, <3>1
  <2>7. CASE Bind(s)
    <3>1. rows[d] \in Row
      BY <2>4, ExistsRow DEF TInv, RowsOK
    <3>2. rows'[d] = [rows[d] EXCEPT !.guid = TRUE]
      BY <2>3, <2>7 DEF TInv, RowsOK
    <3>3. rows'[d].keys = rows[d].keys
      BY <3>1, <3>2, SMT DEF Row
    <3> QED
      BY <2>1, <2>4, <2>5, <3>3
  <2> QED
    BY <2>6, <2>7
<1> QED
  BY <1>2

\* A row is bound, and brought up to date.
LEMMA BindKeeps ==
    ASSUME TInv, Fits, ~mishap, ~mishap', NEW s \in Slot, Bind(s) \/ Record(s)
    PROVE  Fits'
<1>0. PICK d \in Token, t \in Token : req[s].dev = d /\ req[s].token = t
  BY WorkingHolds, BusyNext DEF Working, Bind, Record
<1>1. /\ req[s].pc \in {"bind", "record"} /\ s \in Busy /\ ~req[s].bye
      /\ \/ /\ Goes(s) /\ req'[s].pc = "serve" /\ req'[s].dev = d
            /\ req'[s].keys = req[s].keys /\ req'[s].events = req[s].events
         \/ Ended(s, "ok") /\ Idle(s)
  <2>1. req[s].pc \in {"bind", "record"}
    BY DEF Bind, Record
  <2>2. CASE Bind(s)
    BY <1>0, <2>1, <2>2, BindDoes, WorkingHolds, BusyNext DEF Bind
  <2>3. CASE Record(s)
    <3>1. Ended(s, "ok")
      BY <2>3, RecordDoes
    <3>2. Idle(s)
      BY <3>1 DEF Ended, Idle
    <3> QED
      BY <2>1, <3>1, <3>2, WorkingHolds, BusyNext
  <2> QED
    BY <2>2, <2>3
<1>2. PutsStay /\ NoneNew /\ \A u \in Slot \ {s} : Like(u) /\ req'[u] = req[u]
  BY <1>1, OneGoes
<1>3. UNCHANGED <<stored, config, coll, purged, spent, dropped>>
  BY DEF Bind, Record, machine
<1>4. \A u \in Slot : RowRead(req[u]) /\ KeysRead(req[u])
  BY DEF Fits, RequestsFit
<1>5. Bound \subseteq {d} /\ (Has(d, t) \/ d \in Bound)
  BY <1>0, <1>1, <1>4 DEF RowRead
<1>6. CASE rows' = rows
  <2>1. RowsSame
    BY <1>6 DEF RowsSame, Exists
  <2>2. CASE Idle(s)
    BY <1>2, <1>3, <1>4, <2>1, <2>2, IdleFits, LikeFits, StillFits
  <2>3. CASE ~Idle(s)
    <3>1. /\ req'[s].pc = "serve" /\ req'[s].dev = d /\ req'[s].token = t
          /\ req'[s].keys = req[s].keys /\ req'[s].wrapped = req[s].wrapped
      BY <1>0, <1>1, <2>3 DEF Goes
    <3>2. Bound' = Bound /\ (Has(d, t)' <=> Has(d, t))
      BY <2>1, RowsSameHas
    <3>3. RowRead(req[s])'
      BY <1>5, <3>1, <3>2 DEF RowRead
    <3>4. KeysRead(req[s])'
      BY <1>0, <1>1, <1>4, <1>6, <3>1 DEF KeysRead, Target, Working, Exists
    <3> QED
      BY <1>2, <1>3, <1>4, <2>1, <3>3, <3>4, LikeFits, StillFits
  <2> QED
    BY <2>2, <2>3
<1>7. CASE rows' # rows
  <2>1. /\ Exists(d) /\ Bound' = {d} /\ ~Strays(d)
        /\ \A r \in Token : Exists(r)' <=> Exists(r)
        /\ \A r \in Token \ {d} : rows'[r] = rows[r]
        /\ rows'[d].guid /\ rows'[d].token = rows[d].token
        /\ \/ rows'[d].keys = rows[d].keys
           \/ req[s].pc = "record" /\ req[s].wrapped # 0 /\ rows'[d].keys = Keys(s)
    BY <1>0, <1>7, BindRow
  <2>2. \A r \in Token : \A x : Has(r, x)' <=> Has(r, x)
    BY <2>1 DEF Has
  \* The row's keys gain the one the request brings.
  <2>3. /\ rows[d].keys \subseteq rows'[d].keys
        /\ \/ rows'[d].keys = rows[d].keys
           \/ req[s].wrapped # 0 /\ rows'[d].keys = rows[d].keys \cup {req[s].wrapped}
    <3>1. CASE req[s].pc = "record" /\ req[s].wrapped # 0 /\ rows'[d].keys = Keys(s)
      <4>1. req[s].keys \subseteq rows[d].keys /\ rows[d].keys \subseteq req[s].keys \cup {req[s].wrapped}
        BY <1>0, <1>1, <1>4, <2>1, <3>1 DEF KeysRead, Target, Working
      <4>2. rows'[d].keys = req[s].keys \cup {req[s].wrapped}
        BY <3>1 DEF Keys
      <4> QED
        BY <3>1, <4>1, <4>2
    <3> QED
      BY <2>1, <3>1
  <2>4. ASSUME NEW u \in Slot \ {s} PROVE RowRead(req[u])' /\ KeysRead(req[u])'
    <3>1. req'[u] = req[u] /\ RowRead(req[u]) /\ KeysRead(req[u])
      BY <1>2, <1>4
    <3>2. /\ req[u].pc \in Working \ {"lookup"} => /\ req[u].dev \in Token /\ req[u].token = t
                                                   /\ u \in Busy
          /\ req[u].pc \in {"drop", "put"} => req[u].other \in Token
      BY <1>0, <1>1, WorkingHolds DEF Fits, OneLife, Working
    <3>3. req[u].pc = "continuity" /\ ~Exists(req[u].dev) => Moved(t)'
      <4>1. CASE \E b \in Bound : Has(b, t)
        BY <1>5, <2>1, <2>2, <4>1 DEF Moved
      <4>2. CASE /\ \A r \in Token : ~Has(r, t)
                 /\ \E p \in Slot : req[p].pc = "put" /\ req[p].other \in Bound
        BY <1>2, <1>5, <2>1, <2>2, <4>2 DEF Moved, PutsStay
      <4> QED
        BY <3>1, <3>2, <4>1, <4>2 DEF RowRead, Moved, Working
    <3>4. req[u].pc \in {"drop", "put"} => req[u].other \in Bound' /\ req[u].other # req[u].dev
      BY <1>5, <2>1, <3>1 DEF RowRead
    <3>5. req[u].pc \in {"bind", "serve", "record"} /\ ~req[u].bye => req[u].dev = d
      <4>1. CASE d \in Bound
        BY <3>1, <4>1 DEF RowRead
      <4>2. CASE d \notin Bound
        <5>1. Bound = {} /\ Has(d, t)
          BY <1>5, <4>2
        <5> QED
          BY <3>1, <3>2, <5>1, OneToken DEF RowRead, Working
      <4> QED
        BY <4>1, <4>2
    <3>6. RowRead(req[u])'
      BY <2>1, <2>2, <3>1, <3>2, <3>3, <3>4, <3>5 DEF RowRead, Working
    <3>7. KeysRead(req[u])'
      <4>1. req[u].pc \in Working \ {"lookup"} => Target(req[u]) \in Token
        BY <3>2 DEF Target
      <4>2. Target(req[u])' = Target(req[u])
        BY <3>1 DEF Target
      <4>3. req[u].wrapped # 0 /\ u \in Busy /\ req[s].wrapped # 0 => req[u].wrapped = req[s].wrapped
        BY <1>1 DEF Fits, OneLife
      <4> QED
        BY <2>1, <2>3, <3>1, <3>2, <4>1, <4>2, <4>3 DEF KeysRead
    <3> QED
      BY <3>6, <3>7
  <2>5. RowRead(req[s])' /\ KeysRead(req[s])'
    <3>1. CASE Idle(s)
      BY <3>1, IdleFits
    <3>2. CASE ~Idle(s)
      <4>1. /\ req'[s].pc = "serve" /\ req'[s].dev = d /\ req'[s].bye = req[s].bye
            /\ req'[s].keys = req[s].keys /\ req'[s].wrapped = req[s].wrapped
        BY <1>1, <3>2 DEF Goes
      <4>2. RowRead(req[s])'
        BY <2>1, <4>1 DEF RowRead
      <4>3. KeysRead(req[s])'
        BY <1>0, <1>1, <1>4, <2>1, <2>3, <4>1 DEF KeysRead, Target, Working
      <4> QED
        BY <4>2, <4>3
    <3> QED
      BY <3>1, <3>2
  <2>6. TokenAlive'
    BY <1>2, <1>3, <2>2 DEF Fits, TokenAlive, PutsStay, Has
  <2>7. EventsPlaced'
    <3>1. \A e \in stored : e.dev \in Token
      BY DEF TInv, RestOK
    <3>2. \A e \in stored : Exists(e.dev) => e.dev = d
      BY <2>1 DEF Strays
    <3> QED
      BY <1>3, <2>1, <3>1, <3>2 DEF Fits, EventsPlaced
  <2>8. KeysHeld'
    <3>1. KeysGrow
      BY <1>5, <2>1, <2>3 DEF KeysGrow
    <3>2. \A r \in Token : Exists(r)' /\ rows'[r].keys # {} => rows'[r].guid
      BY <2>1 DEF Fits, KeysHeld
    <3> QED
      BY <1>2, <1>3, <3>1, <3>2, KeysHeldOn DEF Fits
  <2>9. OneLife' /\ RequestsFit'
    BY <1>2, <2>4, <2>5, OneLifeFewer DEF Fits, RequestsFit
  <2> QED
    BY <2>6, <2>7, <2>8, <2>9 DEF Fits
<1> QED
  BY <1>6, <1>7

\* The events are stored.
LEMMA ServeKeeps ==
    ASSUME TInv, Fits, NEW s \in Slot, Serve(s)
    PROVE  Fits'
<1>0. PICK d \in Token, t \in Token : req[s].dev = d /\ req[s].token = t
  BY WorkingHolds, BusyNext DEF Working, Serve
<1>1. /\ req[s].pc = "serve" /\ s \in Busy /\ ~req[s].bye
      /\ \/ /\ Goes(s) /\ req'[s].pc = "record" /\ req'[s].dev = d
            /\ req'[s].keys = req[s].keys /\ req'[s].events = 0
            /\ \A e \in stored' :
                  e \in stored \/ (e.dev = d /\ e.kid = req[s].events /\ req[s].events # 0)
         \/ Ended(s, "401") /\ Idle(s) /\ stored' = stored
  <2>1. CASE Ended(s, "401") /\ stored' = stored
    BY <2>1, ServeDoes, BusyNext DEF Ended, Idle
  <2>2. CASE ~(Ended(s, "401") /\ stored' = stored)
    BY <1>0, <2>2, ServeDoes, BusyNext
  <2> QED
    BY <2>1, <2>2
<1>2. UNCHANGED <<rows, config, coll, purged, spent, dropped>>
  BY DEF Serve, machine, history
<1>3. RowsSame
  BY <1>2 DEF RowsSame, Exists
<1>4. PutsStay /\ NoneNew /\ \A u \in Slot \ {s} : Like(u)
  BY <1>1, OneGoes
<1>5. \A u \in Slot : RowRead(req[u]) /\ KeysRead(req[u])
  BY DEF Fits, RequestsFit
<1>6. Bound \subseteq {d} /\ Exists(d)
  BY <1>0, <1>1, <1>5, ExistsRow DEF RowRead, Has
<1>7. \A e \in stored' : e \in stored \/ (e.dev = d /\ e.kid = req[s].events /\ req[s].events # 0)
  BY <1>1
<1>8. RowRead(req[s])' /\ KeysRead(req[s])'
  <2>1. CASE Idle(s)
    BY <2>1, IdleFits
  <2>2. CASE ~Idle(s)
    <3>1. /\ req'[s].pc = "record" /\ req'[s].dev = d /\ req'[s].token = t
          /\ req'[s].keys = req[s].keys /\ req'[s].wrapped = req[s].wrapped
      BY <1>0, <1>1, <2>2 DEF Goes
    <3>2. Bound' = Bound /\ (Has(d, t)' <=> Has(d, t))
      BY <1>3, RowsSameHas
    <3>3. RowRead(req[s])'
      BY <1>0, <1>1, <1>5, <3>1, <3>2 DEF RowRead
    <3>4. KeysRead(req[s])'
      BY <1>0, <1>1, <1>2, <1>5, <3>1 DEF KeysRead, Target, Working, Exists
    <3> QED
      BY <3>3, <3>4
  <2> QED
    BY <2>1, <2>2
<1>9. OneLife' /\ RequestsFit'
  BY <1>3, <1>4, <1>5, <1>8, LikeFits, OneLifeFewer DEF Fits, RequestsFit
<1>10. TokenAlive'
  BY <1>2, <1>3, <1>4, TokensSame DEF Fits
<1>11. EventsPlaced'
  <2>1. \A e \in stored : e.dev \in Token
    BY DEF TInv, RestOK
  <2> QED
    BY <1>2, <1>3, <1>6, <1>7, <2>1, RowsSameHas DEF Fits, EventsPlaced, RowsSame
<1>12. KeysHeld'
  <2>1. \A r \in Token : Exists(r)' /\ rows'[r].keys # {} => rows'[r].guid
    BY <1>3 DEF Fits, KeysHeld, RowsSame
  <2>2. \A e \in stored' : e \in stored \/ Held(e.kid)
    BY <1>1, <1>7 DEF Fits, KeysHeld
  <2> QED
    BY <1>2, <1>3, <1>4, <2>1, <2>2, RowsSameHas, KeysHeldOn DEF Fits
<1> QED
  BY <1>9, <1>10, <1>11, <1>12 DEF Fits

\* A row is marked.
LEMMA MarkKeeps ==
    ASSUME TInv, Fits,
           \/ \E s \in Slot : Stamp(s)
           \/ \E r \in Token : Revoke(r) \/ Restore(r)
    PROVE  Fits'
<1>1. UNCHANGED <<stored, config, coll, purged, spent, dropped>>
  BY DEF Stamp, Revoke, Restore, machine, history
<1>2. RowsSame
  <2>1. ASSUME NEW r, NEW x, NEW y, Marked(r, x, y) PROVE RowsSame
    <3>1. r \in Token /\ rows'[r] \in Row /\ Exists(r)
      BY <2>1 DEF Marked
    <3>2. Exists(r)'
      BY <3>1, ExistsRow, LifecycleAssumption
    <3> QED
      BY <2>1, <3>1, <3>2 DEF Marked, RowsSame, Exists
  <2>2. rows' = rows => RowsSame
    BY DEF RowsSame, Exists
  <2> QED
    BY <2>1, <2>2, StampRow, RevokeRow, RestoreRow
<1>3. \A u \in Slot : Like(u) \/ (Idle(u) /\ req'[u].pc = "free" /\ req[u].pc = "serve")
  <2>1. ASSUME NEW s \in Slot, Stamp(s), NEW u \in Slot
        PROVE  Like(u) \/ (Idle(u) /\ req'[u].pc = "free" /\ req[u].pc = "serve")
    <3>1. CASE u = s
      BY <2>1, <3>1, StampDoes DEF Idle, FreeReq
    <3>2. CASE u # s
      BY <2>1, <3>2, StampDoes DEF MarkedFrom, Like
    <3> QED
      BY <3>1, <3>2
  <2>2. ASSUME NEW r \in Token, Revoke(r), NEW u \in Slot PROVE Like(u)
    BY <2>2, RevokeDoes DEF MarkedFrom, Like
  <2>3. ASSUME NEW r \in Token, Restore(r), NEW u \in Slot PROVE Like(u)
    BY <2>3 DEF Restore, Like
  <2> QED
    BY <2>1, <2>2, <2>3
<1>4. PutsStay
  BY <1>3 DEF PutsStay, Like
<1>5. NoneNew
  <2>1. ASSUME NEW u \in Busy'
        PROVE  /\ u \in Busy /\ req'[u].token = req[u].token /\ req'[u].wrapped = req[u].wrapped
               /\ req'[u].events \in {0, req[u].events}
    <3>1. u \in Slot
      BY DEF Busy
    <3> QED
      BY <1>3, <2>1, <3>1, BusyNext DEF Like
  <2> QED
    BY <2>1 DEF NoneNew
<1>6. \A u \in Slot : RowRead(req[u])' /\ KeysRead(req[u])'
  BY <1>2, <1>3, <1>4, LikeFits, IdleFits DEF Fits, RequestsFit
<1> QED
  BY <1>1, <1>2, <1>4, <1>5, <1>6, StillFits

\* The administrator deletes a row nobody in the function is about.
LEMMA PurgeKeeps ==
    ASSUME TInv, Fits, ~mishap, ~mishap', NEW r \in Token, Purge(r)
    PROVE  Fits'
<1>1. /\ UNCHANGED <<req, config, coll>> /\ Exists(r)
      /\ rows' = [rows EXCEPT ![r] = None]
      /\ stored' = {e \in stored : e.dev # r}
      /\ purged' = purged \cup {r} /\ spent' = spent \cup {rows[r].token}
      /\ dropped' = dropped \cup rows[r].keys
      /\ \A s \in Busy : /\ r \notin {req[s].dev, req[s].other}
                         /\ req[s].token # rows[r].token
  BY DEF Purge, machine
<1>2. rows'[r] = None /\ \A q \in Token \ {r} : rows'[q] = rows[q]
  BY <1>1 DEF TInv, RowsOK
<1>3. ~Exists(r)' /\ \A q \in Token \ {r} : Exists(q)' <=> Exists(q)
  BY <1>2 DEF Exists
<1>4. Bound' = Bound \ {r}
  <2>1. \A q \in Token : q \in Bound' <=> q \in Bound /\ q # r
    BY <1>2, <1>3, ExistsRow
  <2> QED
    BY <2>1 DEF Bound
<1>5. \A q \in Token \ {r} : \A x : Has(q, x)' <=> Has(q, x)
  BY <1>2, <1>3 DEF Has
<1>6. ASSUME NEW u \in Slot PROVE RowRead(req[u])' /\ KeysRead(req[u])'
  <2>1. req'[u] = req[u] /\ RowRead(req[u]) /\ KeysRead(req[u])
    BY <1>1 DEF Fits, RequestsFit
  <2>2. /\ req[u].pc \in Working \ {"lookup"} =>
              /\ req[u].dev \in Token \ {r} /\ req[u].token # rows[r].token
        /\ req[u].pc \in {"drop", "put"} => req[u].other \in Token \ {r}
    BY <1>1, WorkingHolds DEF Working
  <2>3. ASSUME req[u].pc = "continuity", Moved(req[u].token) PROVE Moved(req[u].token)'
    <3>1. ~Has(r, req[u].token)
      BY <2>2, <2>3 DEF Has, Working
    <3>2. CASE \E b \in Bound : Has(b, req[u].token)
      <4>1. PICK b \in Bound : Has(b, req[u].token)
        BY <3>2
      <4>2. b # r /\ b \in Token
        BY <3>1, <4>1 DEF Bound
      <4> QED
        BY <1>4, <1>5, <2>1, <4>1, <4>2 DEF Moved, Has
    <3>3. CASE /\ \A q \in Token : ~Has(q, req[u].token)
               /\ \E p \in Slot : req[p].pc = "put" /\ req[p].other \in Bound
      <4>1. \A q \in Token : ~Has(q, req[u].token)'
        BY <1>3, <1>5, <2>1, <3>3 DEF Has
      <4>2. PICK p \in Slot : req[p].pc = "put" /\ req[p].other \in Bound
        BY <3>3
      <4>3. req[p].other # r
        BY <1>1, <4>2, BusyNext
      <4>4. req'[p].pc = "put" /\ req'[p].other \in Bound'
        BY <1>1, <1>4, <4>2, <4>3
      <4> QED
        BY <4>1, <4>4 DEF Moved
    <3> QED
      BY <2>3, <3>2, <3>3 DEF Moved
  <2>4. req[u].pc \in {"drop", "put"} => req[u].other \in Bound' /\ req[u].other # req[u].dev
    BY <1>4, <2>1, <2>2 DEF RowRead
  <2>5. req[u].pc \in {"bind", "serve", "record"} /\ ~req[u].bye =>
            /\ Bound' \subseteq {req[u].dev}
            /\ Has(req[u].dev, req[u].token)' \/ req[u].dev \in Bound'
    BY <1>4, <1>5, <2>1, <2>2 DEF RowRead, Has, Working
  <2>6. req[u].pc \in {"continuity", "drop", "put"} =>
            /\ Exists(req[u].dev)' <=> Exists(req[u].dev)
            /\ Has(req[u].dev, req[u].token)' <=> Has(req[u].dev, req[u].token)
    BY <1>3, <1>5, <2>1, <2>2 DEF Has, Working
  <2>7. RowRead(req[u])'
    BY <2>1, <2>3, <2>4, <2>5, <2>6 DEF RowRead
  <2>8. KeysRead(req[u])'
    BY <1>2, <1>3, <2>1, <2>2 DEF KeysRead, Target, Working, Exists
  <2> QED
    BY <2>7, <2>8
<1>7. TokenAlive'
  <2>1. ASSUME NEW x \in Token
        PROVE  \/ \E q \in Token : Has(q, x)'
               \/ \E u \in Slot : req'[u].pc = "put" /\ req'[u].token = x
               \/ x \in spent'
    <3>1. CASE Has(r, x)
      BY <1>1, <3>1 DEF Has
    <3>2. CASE ~Has(r, x)
      BY <1>1, <1>5, <3>2 DEF Fits, TokenAlive
    <3> QED
      BY <3>1, <3>2
  <2> QED
    BY <2>1 DEF TokenAlive
<1>8. EventsPlaced'
  <2>1. \A e \in stored : e.dev \in Token
    BY DEF TInv, RestOK
  <2> QED
    BY <1>1, <1>3, <1>4, <2>1 DEF Fits, EventsPlaced
<1>9. KeysHeld'
  <2>1. ASSUME NEW k, Held(k) PROVE Held(k)'
    <3>1. CASE \E q \in Bound : k \in rows[q].keys
      <4>1. PICK q \in Bound : k \in rows[q].keys
        BY <3>1
      <4>2. CASE q = r
        BY <1>1, <4>1, <4>2 DEF Held
      <4>3. CASE q # r
        BY <1>2, <1>4, <4>1, <4>3 DEF Held, Bound
      <4> QED
        BY <4>2, <4>3
    <3> QED
      BY <1>1, <2>1, <3>1 DEF Held
  <2>2. \A q \in Token : Exists(q)' /\ rows'[q].keys # {} => rows'[q].guid
    BY <1>2, <1>3 DEF Fits, KeysHeld
  <2>3. Busy' = Busy
    BY <1>1 DEF Busy
  <2>4. \A e \in stored' : Held(e.kid)'
    BY <1>1, <2>1 DEF Fits, KeysHeld
  <2>5. ASSUME NEW u \in Busy, req[u].events # 0 PROVE Held(req[u].events)'
    <3>1. PICK k : k = req[u].events
      OBVIOUS
    <3>2. Held(k)'
      BY <2>1, <2>5, <3>1 DEF Fits, KeysHeld
    <3> QED
      BY <1>1, <3>1, <3>2 DEF Held
  <2>6. coll # None /\ coll.dek # 0 => Held(coll.dek)'
    BY <1>1, <2>1 DEF Fits, KeysHeld, Held
  <2> QED
    BY <1>1, <2>2, <2>3, <2>4, <2>5, <2>6 DEF Fits, KeysHeld
<1>10. OneLife'
  BY <1>1 DEF Fits, OneLife, Busy
<1>11. RequestsFit'
  BY <1>6 DEF RequestsFit
<1> QED
  BY <1>7, <1>8, <1>9, <1>10, <1>11 DEF Fits

\* The machine works for itself.
LEMMA QuietKeeps ==
    ASSUME TInv, Fits, Freed, UNCHANGED <<rows, stored, purged, spent>>,
           \A k : k # 0 /\ Held(k) => Held(k)',
           coll' # None /\ coll'.dek # 0 => Held(coll.dek)',
           coll' # None => config' # None,
           coll' # None /\ coll'.dek = 0 /\ config' \in Config => config'.dek = 0
    PROVE  Fits'
<1>1. RowsSame
  BY DEF RowsSame, Exists
<1>2. \A u \in Slot : (Like(u) /\ req'[u] = req[u]) \/ (Idle(u) /\ u \notin Busy /\ u \notin Busy')
  <2>1. ASSUME NEW u \in Slot, req'[u] = FreeReq PROVE Idle(u) /\ u \notin Busy'
    BY <2>1, BusyNext DEF Idle, FreeReq
  <2>2. ASSUME NEW u \in Slot, req'[u] = req[u] PROVE Like(u)
    BY <2>2 DEF Like
  <2> QED
    BY <2>1, <2>2 DEF Freed
<1>3. PutsStay
  BY <1>2, BusyNext DEF PutsStay
<1>4. NoneNew
  <2>1. ASSUME NEW u \in Busy' PROVE u \in Busy /\ req'[u] = req[u]
    <3>1. u \in Slot
      BY DEF Busy
    <3> QED
      BY <1>2, <2>1, <3>1, BusyNext
  <2> QED
    BY <2>1 DEF NoneNew
<1>5. RequestsFit'
  BY <1>1, <1>2, <1>3, LikeFits, IdleFits DEF Fits, RequestsFit
<1>6. OneLife' /\ TokenAlive' /\ EventsPlaced'
  BY <1>1, <1>3, <1>4, OneLifeFewer, TokensSame, EventsSame DEF Fits
<1>7. KeysHeld'
  <2>1. \A r \in Token : Exists(r)' /\ rows'[r].keys # {} => rows'[r].guid
    BY DEF Fits, KeysHeld, Exists
  <2>2. \A e \in stored' : Held(e.kid)'
    <3>1. \A e \in stored : e.kid # 0
      BY LifecycleAssumption DEF TInv, RestOK, MachineOK
    <3> QED
      BY <3>1 DEF Fits, KeysHeld
  <2>3. ASSUME NEW u \in Busy', req'[u].events # 0 PROVE Held(req[u].events)'
    <3>1. u \in Busy /\ req'[u].events \in {0, req[u].events}
      BY <1>4 DEF NoneNew
    <3> QED
      BY <2>3, <3>1 DEF Fits, KeysHeld, Held
  <2> QED
    BY <2>1, <2>2, <2>3 DEF KeysHeld
<1> QED
  BY <1>5, <1>6, <1>7 DEF Fits

\* What goes with config.json is with the machine's row, or is dropped.
LEMMA DropsHeld ==
    ASSUME TInv, KeysHeld, rows' = rows, dropped \cup Drops \subseteq dropped', NEW k, k # 0, Held(k)
    PROVE  Held(k)'
<1>1. Bound' = Bound
  BY DEF Bound
<1>2. CASE config \in Config /\ config.dek = k
  <2>1. CASE Recorded(k)
    <3>1. PICK r \in Token : rows[r] # None /\ k \in rows[r].keys
      BY <2>1 DEF Recorded
    <3>2. r \in Bound
      BY <3>1, ExistsRow DEF KeysHeld
    <3> QED
      BY <1>1, <3>1, <3>2 DEF Held
  <2>2. CASE ~Recorded(k)
    <3>1. k \in Drops
      BY <1>2, <2>2 DEF Drops
    <3> QED
      BY <3>1 DEF Held
  <2> QED
    BY <2>1, <2>2
<1>3. CASE \/ \E r \in Bound : k \in rows[r].keys
           \/ k \in dropped
  BY <1>1, <1>3 DEF Held
<1> QED
  BY <1>2, <1>3 DEF Held

LEMMA ConfigKeeps ==
    ASSUME TInv, Fits, (\E t \in Token : Install(t)) \/ EditConfig \/ Left
    PROVE  Fits'
<1>1. Freed /\ UNCHANGED <<rows, stored, purged, spent>>
  BY QuietDoes
<1>2. KeysHeld
  BY DEF Fits
<1>3. config \notin Config => Drops = {}
  BY DEF Drops
<1>4. /\ dropped \cup Drops \subseteq dropped'
      /\ (coll' = coll /\ config' # None) \/ coll' = None
      /\ config' \in Config => config'.dek = 0
  <2>1. CASE \E t \in Token : Install(t)
    <3>1. PICK t \in Token : config' = [token |-> t, dek |-> 0]
      BY <2>1 DEF Install
    <3>2. [token |-> t, dek |-> 0] \in Config
      BY LifecycleAssumption DEF Config
    <3>3. config' # None /\ config'.dek = 0
      BY <3>1, <3>2, LifecycleAssumption
    <3> QED
      BY <2>1, <3>3 DEF Install
  <2>2. CASE EditConfig
    <3>1. \/ config' = [token |-> None, dek |-> 0] /\ dropped' = dropped /\ config = Torn
          \/ config' = Torn /\ dropped' = dropped \cup Drops /\ config \in Config
      BY <2>2 DEF EditConfig
    <3>2. coll' = coll
      BY <2>2 DEF EditConfig
    <3>3. [token |-> None, dek |-> 0] \in Config
      BY LifecycleAssumption DEF Config
    <3>4. config' # None
      BY <3>1, <3>3, LifecycleAssumption
    <3> QED
      BY <1>3, <3>1, <3>2, <3>4, LifecycleAssumption
  <2>3. CASE Left
    <3>1. config' = None /\ coll' = None /\ dropped' = dropped \cup Drops
      BY <2>3 DEF Left
    <3> QED
      BY <3>1, LifecycleAssumption
  <2> QED
    BY <2>1, <2>2, <2>3
<1>5. \A k : k # 0 /\ Held(k) => Held(k)'
  BY <1>1, <1>2, <1>4, DropsHeld
<1>6. coll' # None /\ coll'.dek # 0 => Held(coll.dek)'
  BY <1>4, <1>5 DEF Fits, KeysHeld, Held
<1> QED
  BY <1>1, <1>4, <1>5, <1>6, QuietKeeps

LEMMA CollectorKeeps ==
    ASSUME TInv, Fits, Start \/ TimeOut \/ Refused \/ Die
    PROVE  Fits'
<1>1. Freed /\ UNCHANGED <<rows, stored, purged, spent>>
  BY QuietDoes
<1>2. UNCHANGED <<config, dropped>>
  BY DEF Start, TimeOut, Refused, Die, history
<1>3. \A k : Held(k) => Held(k)'
  BY <1>1, <1>2 DEF Held, Bound
<1>4. \/ coll' = None
      \/ coll # None /\ coll'.dek = coll.dek
      \/ config \in Config /\ coll'.dek = config.dek
  <2>1. CASE Start
    BY <2>1 DEF Start
  <2>2. CASE TimeOut
    BY <2>2, CollSet DEF TimeOut
  <2>3. CASE Refused
    BY <2>3, CollSet DEF Refused
  <2>4. CASE Die
    BY <2>4 DEF Die
  <2> QED
    BY <2>1, <2>2, <2>3, <2>4
<1>5. coll' # None => /\ config' # None
                      /\ coll'.dek # 0 => Held(coll.dek)'
                      /\ coll'.dek = 0 /\ config' \in Config => config'.dek = 0
  BY <1>2, <1>3, <1>4, LifecycleAssumption DEF Fits, KeysHeld, Held
<1> QED
  BY <1>1, <1>3, <1>5, QuietKeeps

\* A new key is in config.json before it is used.
LEMMA AnsweredKeeps ==
    ASSUME TInv, Fits, ~mishap', Answered
    PROVE  Fits'
<1>1. Freed /\ UNCHANGED <<rows, stored, purged, spent, dropped>>
  BY QuietDoes DEF Answered
<1>2. coll # None /\ config # None
  BY AnsweredDoes DEF Fits, KeysHeld
<1>3. CASE coll' # None /\ coll'.dek = coll.dek /\ UNCHANGED config
  <2>1. \A k : Held(k) => Held(k)'
    BY <1>1, <1>3 DEF Held, Bound
  <2>2. coll'.dek # 0 => Held(coll.dek)'
    BY <1>2, <1>3, <2>1 DEF Fits, KeysHeld, Held
  <2> QED
    BY <1>1, <1>2, <1>3, <2>1, <2>2, QuietKeeps DEF Fits, KeysHeld
<1>4. CASE /\ coll' # None /\ coll'.dek = kids' /\ kids' \in 1 .. MaxKid /\ coll.dek = 0
           /\ config # Torn /\ config' = Persist(kids')
  <2>1. config \in Config /\ config.dek = 0
    BY <1>2, <1>4 DEF TInv, MachineOK, Fits, KeysHeld
  <2>2. kids' \in 0 .. MaxKid /\ kids' # 0
    BY <1>4, LifecycleAssumption
  <2>3. config' \in Config /\ config'.dek = kids'
    BY <1>4, <2>1, <2>2, PersistDoes
  <2>4. \A k : k # 0 /\ Held(k) => Held(k)'
    BY <1>1, <2>1 DEF Held, Bound
  <2>5. Held(coll.dek)'
    BY <1>4, <2>3 DEF Held
  <2>6. config' # None
    BY <2>3, LifecycleAssumption
  <2> QED
    BY <1>1, <1>4, <2>2, <2>4, <2>5, <2>6, QuietKeeps
<1>5. CASE coll' = None /\ coll.dek = 0 /\ config \in Config
  <2>1. config.dek = 0
    BY <1>2, <1>5 DEF Fits, KeysHeld
  <2>2. \A k : k # 0 /\ Held(k) => Held(k)'
    BY <1>1, <2>1 DEF Held, Bound
  <2> QED
    BY <1>1, <1>5, <2>2, QuietKeeps
<1> QED
  BY <1>3, <1>4, <1>5, AnsweredDoes

\* A request is sent, by the life of the machine the others are from.
LEMMA SendKeeps ==
    ASSUME TInv, Fits, ~mishap, ~mishap', NEW s \in Slot, Beat(s) \/ Post(s) \/ Leave(s)
    PROVE  Fits'
<1>1. /\ UNCHANGED <<rows, stored, config, purged, spent, dropped>>
      /\ Only(s) /\ req[s].pc = "free" /\ req'[s].pc = "lookup"
      /\ coll' = coll \/ (coll # None /\ coll' # None /\ coll'.dek = coll.dek)
  BY BeatDoes, LeaveDoes DEF server
<1>2. RowsSame
  BY <1>1 DEF RowsSame, Exists
<1>3. \A u \in Slot \ {s} : Like(u) /\ req'[u] = req[u]
  BY <1>1 DEF Only, Like
<1>4. PutsStay /\ Idle(s)
  BY <1>1, <1>3 DEF PutsStay, Idle
<1>5. /\ \A u \in Busy : /\ req[u].token = req'[s].token
                         /\ req'[s].wrapped # 0 => req[u].wrapped \in {0, req'[s].wrapped}
      /\ req'[s].events # 0 => Held(req'[s].events)
  <2>1. CASE Beat(s) \/ Post(s)
    <3>1. /\ ~Meets(coll.token, IF req'[s].wrapped # 0 THEN req'[s].wrapped ELSE req'[s].events)
          /\ req'[s].token = coll.token /\ req'[s].events \in {0, coll.dek} /\ coll # None
      BY <2>1, BeatDoes
    <3> QED
      BY <3>1 DEF Meets, Fits, KeysHeld
  <2>2. CASE Leave(s)
    <3>1. /\ ~Meets(config.token, 0) /\ req'[s].token = config.token
          /\ req'[s].wrapped = 0 /\ req'[s].events = 0
      BY <2>2, LeaveDoes
    <3> QED
      BY <3>1 DEF Meets
  <2> QED
    BY <2>1, <2>2
<1>6. \A u \in Busy' : u = s \/ (u \in Busy /\ req'[u] = req[u] /\ u \in Slot)
  <2>1. ASSUME NEW u \in Busy', u # s PROVE u \in Busy /\ req'[u] = req[u] /\ u \in Slot
    <3>1. u \in Slot
      BY DEF Busy
    <3> QED
      BY <1>3, <2>1, <3>1, BusyNext
  <2> QED
    BY <2>1
<1>7. OneLife'
  <2>1. ASSUME NEW u \in Busy', NEW v \in Busy'
        PROVE  /\ req'[u].token = req'[v].token
               /\ req'[u].wrapped # 0 /\ req'[v].wrapped # 0 => req'[u].wrapped = req'[v].wrapped
    <3>1. CASE u \in Busy /\ v \in Busy /\ req'[u] = req[u] /\ req'[v] = req[v]
      BY <3>1 DEF Fits, OneLife
    <3>2. CASE u = s /\ v \in Busy /\ req'[v] = req[v]
      BY <1>5, <3>2
    <3>3. CASE v = s /\ u \in Busy /\ req'[u] = req[u]
      BY <1>5, <3>3
    <3>4. CASE u = s /\ v = s
      BY <3>4
    <3> QED
      BY <1>6, <3>1, <3>2, <3>3, <3>4
  <2> QED
    BY <2>1 DEF OneLife
<1>8. RequestsFit'
  BY <1>2, <1>3, <1>4, LikeFits, IdleFits DEF Fits, RequestsFit
<1>9. TokenAlive' /\ EventsPlaced'
  BY <1>1, <1>2, <1>4, TokensSame, EventsSame DEF Fits
<1>10. KeysHeld'
  <2>1. \A k : Held(k) => Held(k)'
    BY <1>1 DEF Held, Bound
  <2>2. ASSUME NEW u \in Busy', req'[u].events # 0 PROVE Held(req[u].events)'
    BY <1>1, <1>5, <1>6, <2>2 DEF Fits, KeysHeld, Held, Bound
  <2>3. coll' # None /\ coll'.dek # 0 => Held(coll.dek)'
    BY <1>1, <2>1 DEF Fits, KeysHeld, Held
  <2> QED
    BY <1>1, <2>1, <2>2, <2>3 DEF Fits, KeysHeld, Exists
<1> QED
  BY <1>7, <1>8, <1>9, <1>10 DEF Fits

LEMMA FitsInit == Init => Fits
<1> SUFFICES ASSUME Init PROVE Fits
  OBVIOUS
<1>1. \A s \in Slot : req[s].pc = "free"
  BY DEF Init, FreeReq
<1>2. OneLife /\ RequestsFit
  BY <1>1 DEF OneLife, Busy, RequestsFit, RowRead, KeysRead, Working
<1>3. \A t \in Token : rows[t] = NewRow(t) /\ NewRow(t).token = t /\ NewRow(t).keys = {}
                   /\ NewRow(t) \in Row
  BY SMT DEF Init, NewRow, Row
<1>4. TokenAlive
  BY <1>3, LifecycleAssumption DEF TokenAlive, Has, Exists
<1>5. EventsPlaced /\ KeysHeld
  BY <1>1, <1>3 DEF Init, EventsPlaced, KeysHeld, Busy
<1> QED
  BY <1>2, <1>4, <1>5 DEF Fits

LEMMA KeptStep == TInv /\ Kept /\ [Next]_vars => Kept'
<1> SUFFICES ASSUME TInv, Kept, [Next]_vars, ~mishap' PROVE Fits'
  BY DEF Kept
<1>1. ~mishap
  BY DEF Next, vars, server, bounds, history, Authenticate, Continuity, ContinuityLost,
     DropTokenRow, PutToken, Bind, Stamp, Serve, Record, Cut, Revoke, TInv, RestOK
<1>2. Fits
  BY <1>1 DEF Kept
<1>3. CASE UNCHANGED vars \/ SetOwnerKey
  <2>1. UNCHANGED <<rows, stored, req, config, coll, purged, spent, dropped>>
    BY <1>3 DEF vars, SetOwnerKey, server, machine, bounds, history
  <2>2. Freed
    BY <2>1 DEF Freed, TInv, RequestsOK
  <2>3. \A k : Held(k) => Held(k)'
    BY <2>1 DEF Held, Bound
  <2>4. coll' # None /\ coll'.dek # 0 => Held(coll.dek)'
    BY <1>2, <2>1, <2>3 DEF Fits, KeysHeld, Held
  <2> QED
    BY <1>2, <2>1, <2>2, <2>3, <2>4, QuietKeeps DEF Fits, KeysHeld
<1>4. ASSUME NEW s \in Slot, ContinuityLost(s) PROVE FALSE
  BY <1>4 DEF ContinuityLost
<1> QED
  BY <1>1, <1>2, <1>3, <1>4, ReadKeeps, DropKeeps, PutKeeps, BindKeeps, ServeKeeps, MarkKeeps,
     PurgeKeeps, ConfigKeeps, CollectorKeeps, AnsweredKeeps, SendKeeps DEF Next

LEMMA LifecycleInvariant == Spec => []IInv
<1>1. Init => IInv
  BY TInvInit, ToldInit, FitsInit DEF IInv, Kept
<1>2. IInv /\ [Next]_vars => IInv'
  BY TInvStep, ToldStep, KeptStep DEF IInv
<1> QED
  BY <1>1, <1>2, PTL DEF Spec

\* A re-install gives no row with events up: while nothing was lost on the way,
\* events have their device row until the administrator deletes it
\* (index.ts:57-66, schema.sql purge_device).
THEOREM EventsAlwaysHaveDevice == Spec => []EventsHaveDevice
<1>1. IInv => EventsHaveDevice
  BY DEF IInv, Kept, Fits, EventsPlaced, EventsHaveDevice
<1> QED
  BY <1>1, LifecycleInvariant, PTL

\* The key of every stored event is with its device row or on the way there, through
\* repeats, restarts and moves of the token (index.ts:132-139, collector.py
\* _handle_enc), unless an install, an uninstall or half a config.json removed it
\* before it was recorded (dropped).  Two keys recorded at once, and a key that was
\* not persisted, are mishaps, of which nothing is claimed.
THEOREM KeysAreKept == Spec => []KeyKept
<1>1. IInv => KeyKept
  <2> SUFFICES ASSUME IInv, ~mishap, NEW e \in stored
               PROVE  \/ Exists(e.dev) /\ e.kid \in rows[e.dev].keys
                      \/ e.kid \in OnMachine \cup OnTheWay \cup dropped
                      \/ e.dev \in purged
    BY DEF KeyKept
  <2>1. Fits
    BY DEF IInv, Kept
  <2>2. CASE config \in Config /\ config.dek = e.kid
    BY <2>2 DEF OnMachine
  <2>3. CASE \E r \in Bound : e.kid \in rows[r].keys
    <3>1. PICK r \in Bound : e.kid \in rows[r].keys
      BY <2>3
    <3>2. Exists(e.dev) => r = e.dev
      BY <2>1, <3>1 DEF Fits, EventsPlaced
    <3> QED
      BY <2>1, <3>1, <3>2 DEF Fits, EventsPlaced
  <2> QED
    BY <2>1, <2>2, <2>3 DEF Fits, KeysHeld, Held
<1> QED
  BY <1>1, LifecycleInvariant, PTL

\* The token of config.json is one the server knows, or is about to know: the
\* deletion of its row and its move to the machine's row are two statements
\* (index.ts:57-64).
THEOREM TokenIsKnown == Spec => []TokenKnown
<1>1. IInv => TokenKnown
  <2> SUFFICES ASSUME IInv, ~mishap, config \in Config, config.token # None
               PROVE  \/ \E r \in Token : rows[r] # None /\ rows[r].token = config.token
                      \/ \E s \in Slot : req[s].pc = "put" /\ req[s].token = config.token
                      \/ config.token \in spent \cup purged
    BY DEF TokenKnown
  <2>1. config.token \in Token
    BY DEF Config
  <2> QED
    BY <2>1 DEF IInv, Kept, Fits, TokenAlive, Has, Exists
<1> QED
  BY <1>1, LifecycleInvariant, PTL
=============================================================================
