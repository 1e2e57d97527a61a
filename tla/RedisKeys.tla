------------------------------ MODULE RedisKeys ------------------------------
(***************************************************************************)
(* The commands and Lua scripts that the booking code runs against one     *)
(* Redis database.  Redis executes each of them atomically, so each is an  *)
(* operator from the database before it to the database after it.          *)
(*                                                                         *)
(* A database is a record with the four structures booking uses:           *)
(*   keys       the ticket types whose inventory key exists                *)
(*   inventory  the counter behind each inventory key (0 where it does     *)
(*              not exist, which is where Redis' INCR starts from)         *)
(*   active     the ids in the hash system:active_reservations             *)
(*   canceled   the ids in the set system:canceled_tickets                 *)
(***************************************************************************)
EXTENDS Naturals

CONSTANTS Types,      \* ids of ticket types
          Tickets     \* ids of tickets

Database == [keys      : SUBSET Types,
             inventory : [Types -> Nat],
             active    : SUBSET Tickets,
             canceled  : SUBSET Tickets]

\* A Redis server that has just (re)started without its data.
EmptyDatabase == [keys |-> {}, inventory |-> [tt \in Types |-> 0],
                  active |-> {}, canceled |-> {}]

(***************************************************************************)
(* The gatekeeper script of TicketService.create: -1 when the inventory    *)
(* key is missing, 1 when a unit was taken, 0 when there was none left.    *)
(***************************************************************************)
Cold(db, tt)     == tt \notin db.keys
Admitted(db, tt) == tt \in db.keys /\ db.inventory[tt] > 0
Refused(db, tt)  == tt \in db.keys /\ db.inventory[tt] = 0

AfterReserve(db, tt) ==
    IF Admitted(db, tt) THEN [db EXCEPT !.inventory[tt] = @ - 1] ELSE db

\* SET of the inventory key: overwrites whatever is there.
SetInventory(db, tt, n) ==
    [db EXCEPT !.keys = @ \cup {tt}, !.inventory[tt] = n]

\* DEL of the inventory key.
DelInventory(db, tt) ==
    [db EXCEPT !.keys = @ \ {tt}, !.inventory[tt] = 0]

\* Plain INCR: creates the key at 1 when it is missing.
Incr(db, tt) ==
    [db EXCEPT !.keys = @ \cup {tt}, !.inventory[tt] = @ + 1]

\* The script of TicketService.delete: INCR only a key that exists.
SafeIncr(db, tt) == IF tt \in db.keys THEN Incr(db, tt) ELSE db

HSetActive(db, t) == [db EXCEPT !.active = @ \cup {t}]
HDelActive(db, t) == [db EXCEPT !.active = @ \ {t}]

\* A refund that does not look at the set of canceled tickets.
Refund_Mutant(db, tt, t) ==
    HDelActive(SafeIncr([db EXCEPT !.canceled = @ \cup {t}], tt), t)

(***************************************************************************)
(* RedisKeys.refund_inventory_idempotent: ticket t of type tt gives its    *)
(* unit back unless the set of canceled tickets already holds it.          *)
(***************************************************************************)
Refund(db, tt, t) ==
    IF t \in db.canceled
    THEN db
    ELSE HDelActive(SafeIncr([db EXCEPT !.canceled = @ \cup {t}], tt), t)
=============================================================================
