--------------------------- MODULE TransactionBuilder ---------------------------
(***************************************************************************)
(* TransactionBuilder and build_accounts (lib.rs), with the account order   *)
(* of RemainingAccount and the market tables of ProgramData.                *)
(*                                                                         *)
(* A builder keeps the data its sub-account had when it was made, and       *)
(* collects instructions.  Left out of an instruction: its program, its     *)
(* parameters and its base accounts, which come first and are the same for  *)
(* all calls of an operation.                                               *)
(***************************************************************************)
EXTENDS Naturals, SequencesExt

CONSTANTS
  BitmapBits,      \* 64, the width of the words of `seen'
  ByteValues,      \* 256, what a market index is cast to before the shift
  OverflowChecks,  \* whether the build checks a shift for overflow
  OracleOf,        \* the oracle of each known market, a public key
  KeyOf,           \* the account of each known market, a public key
  Users,           \* account data of the builder's user
  Counterparties,  \* and of takers and makers
  MarketId,        \* the markets calls are made for
  OrderLists,      \* the markets of the orders that are placed together
  MaxCalls         \* bound: instructions in one builder

\* MarketId of types.rs, and what the builder reads of a user's account.
Market == [kind: {"spot", "perp"}, index: Nat]
Position == [market_index: Nat, available: BOOLEAN]
User == [spot_positions: Seq(Position), perp_positions: Seq(Position)]

\* Public keys are ordered, by their bytes; two markets have two accounts.
ASSUME BuilderAssumption ==
  /\ BitmapBits \in Nat \ {0} /\ ByteValues \in Nat \ {0}
  /\ OverflowChecks \in BOOLEAN
  /\ MaxCalls \in Nat
  /\ Users \subseteq User /\ Counterparties \subseteq User /\ MarketId \subseteq Market
  /\ OrderLists \subseteq Seq(Market)
  /\ DOMAIN KeyOf \subseteq Market
  /\ KeyOf \in [DOMAIN KeyOf -> Nat] /\ OracleOf \in [DOMAIN KeyOf -> Nat]
  /\ \A m, n \in DOMAIN KeyOf : KeyOf[m] = KeyOf[n] => m = n

QUOTE_SPOT == [kind |-> "spot", index |-> 0]

VARIABLES
  account_data,   \* the user account the builder was made with
  ixs,            \* the instructions
  legacy,         \* the transaction mode
  lookup_tables,
  outcome,        \* "open", then "built" or "panicked"
  calls           \* history: what was asked for, one entry per instruction

builder_vars == <<account_data, ixs, legacy, lookup_tables, outcome, calls>>

-----------------------------------------------------------------------------
(* RemainingAccount and its order: by type, then by key.  Whether an account *)
(* is writable does not count.                                               *)
Discriminant == [oracle |-> 0, spot |-> 1, perp |-> 2]

before(a, b) ==
  \/ Discriminant[a.type] < Discriminant[b.type]
  \/ a.type = b.type /\ a.pubkey < b.pubkey

market_account(m, writable) == [type |-> m.kind, pubkey |-> KeyOf[m], writable |-> writable]
oracle_account(m) == [type |-> "oracle", pubkey |-> OracleOf[m], writable |-> FALSE]

\* Mutant: accounts are told apart by their key alone.
insert_account_by_key(accounts, a) ==
  LET smaller == {i \in DOMAIN accounts : accounts[i].pubkey < a.pubkey}
  IN IF \E i \in DOMAIN accounts : accounts[i].pubkey = a.pubkey THEN accounts
     ELSE InsertAt(accounts, Cardinality(smaller) + 1, a)

\* binary_search and insert.
insert_account(accounts, a) ==
  LET smaller == {i \in DOMAIN accounts : before(accounts[i], a)}
      equal   == {i \in DOMAIN accounts : ~before(accounts[i], a) /\ ~before(a, accounts[i])}
  IN IF equal # {} THEN accounts ELSE InsertAt(accounts, Cardinality(smaller) + 1, a)

\* The shift that picks a market's bit, and the bit a release build gets.
shift(m) == m.index % ByteValues
bit(m) == <<m.kind, shift(m) % BitmapBits>>

\* Mutant: spot and perp markets in one word.
include_market_one_word(st, m, writable) ==
  LET b == <<"spot", shift(m) % BitmapBits>>
  IN IF st.panicked \/ b \in st.seen THEN st
     ELSE IF m \notin DOMAIN KeyOf THEN [st EXCEPT !.panicked = TRUE]
     ELSE [st EXCEPT !.seen = @ \cup {b},
                     !.accounts = insert_account(insert_account(@, market_account(m, writable)),
                                                 oracle_account(m))]

\* The closure include_market of build_accounts.
include_market(st, m, writable) ==
  IF st.panicked \/ (OverflowChecks /\ shift(m) >= BitmapBits)
  THEN [st EXCEPT !.panicked = TRUE]
  ELSE IF bit(m) \in st.seen THEN st
  ELSE IF m \notin DOMAIN KeyOf THEN [st EXCEPT !.panicked = TRUE]
  ELSE [st EXCEPT !.seen = @ \cup {bit(m)},
                  !.accounts = insert_account(insert_account(@, market_account(m, writable)),
                                              oracle_account(m))]

\* What a loop goes over: markets, and the positions of a user, of which those
\* that are available are passed over.
marked(markets, writable) ==
  [i \in DOMAIN markets |-> [id |-> markets[i], writable |-> writable, skipped |-> FALSE]]
positions(slots, kind) ==
  [i \in DOMAIN slots |-> [id |-> [kind |-> kind, index |-> slots[i].market_index],
                           writable |-> FALSE, skipped |-> slots[i].available]]

\* A loop of calls of include_market.
include_each(st, ms) ==
  LET run[i \in 0..Len(ms)] ==
        IF i = 0 THEN st
        ELSE IF ms[i].skipped THEN run[i - 1]
        ELSE include_market(run[i - 1], ms[i].id, ms[i].writable)
  IN run[Len(ms)]

\* The positions of one user after the other.
include_users(st, users) ==
  LET run[i \in 0..Len(users)] ==
        IF i = 0 THEN st
        ELSE include_each(include_each(run[i - 1], positions(users[i].spot_positions, "spot")),
                          positions(users[i].perp_positions, "perp"))
  IN run[Len(users)]

NothingSeen == [seen |-> {}, accounts |-> <<>>, panicked |-> FALSE]

\* Mutant: the markets that are written are included behind the positions.
build_accounts_writable_last(req) ==
  LET read == include_users(include_each(NothingSeen, marked(req.readable, FALSE)), req.users)
  IN include_market(include_each(read, marked(req.writable, TRUE)), QUOTE_SPOT, FALSE)

\* The first mention of a market decides whether it is writable.
build_accounts(req) ==
  LET written == include_each(NothingSeen, marked(req.writable, TRUE))
      given   == include_each(written, marked(req.readable, FALSE))
  IN include_market(include_users(given, req.users), QUOTE_SPOT, FALSE)

-----------------------------------------------------------------------------
BuilderInit ==
  /\ account_data \in Users
  /\ ixs = <<>>
  /\ legacy = FALSE
  /\ lookup_tables = <<"program">>
  /\ outcome = "open"
  /\ calls = <<>>

Request(op, users, readable, writable) ==
  [op |-> op, users |-> users, readable |-> readable, writable |-> writable]

\* A call that makes n instructions from one set of accounts, each with the
\* accounts of `tail' at its end.
Add(req, tail, n) ==
  LET built == build_accounts(req)
      ix    == [op |-> req.op, accounts |-> built.accounts, tail |-> tail]
  IN /\ outcome = "open"
     /\ Len(calls) + n <= MaxCalls
     /\ \/ /\ built.panicked
           /\ outcome' = "panicked"
           /\ UNCHANGED <<ixs, calls>>
        \/ /\ ~built.panicked
           /\ ixs' = ixs \o [i \in 1..n |-> ix]
           /\ calls' = calls \o [i \in 1..n |-> req]
           /\ UNCHANGED outcome
     /\ UNCHANGED <<account_data, legacy, lookup_tables>>

\* deposit and withdraw.
Transfer(op, m) ==
  m.kind = "spot" /\ Add(Request(op, <<account_data>>, <<>>, <<m>>), <<>>, 1)

place_orders(markets) == Add(Request("place_orders", <<account_data>>, markets, <<>>), <<>>, 1)

cancel_orders(m) == Add(Request("cancel_orders", <<account_data>>, <<m>>, <<>>), <<>>, 1)

\* cancel_all_orders and cancel_orders_by_id.
Cancel(op) == Add(Request(op, <<account_data>>, <<>>, <<>>), <<>>, 1)

\* cancel_orders_by_user_id, modify_orders and modify_orders_by_user_id: an
\* instruction per order.
ForEachOrder(op, n) ==
  /\ op # "cancel_orders_by_user_id" => n > 0
  /\ Add(Request(op, <<account_data>>, <<>>, <<>>), <<>>, n)

\* The markets an order may fill in.
writable_markets(m) == IF m.kind = "perp" THEN <<m>> ELSE <<m, QUOTE_SPOT>>

referrer_accounts == <<"referrer stats", "referrer">>

place_and_make(m, taker, referrer) ==
  Add(Request("place_and_make", <<account_data, taker>>, <<>>, writable_markets(m)),
      IF referrer = "none" THEN <<>> ELSE referrer_accounts, 1)

\* A maker's own account is not added, nor is a referrer who is the maker.
place_and_take(m, makers, referrer) ==
  Add(Request("place_and_take", <<account_data>> \o makers, <<>>, writable_markets(m)),
      IF referrer \in {"none", "maker"} THEN <<>> ELSE referrer_accounts, 1)

ComputeBudget == {"price", "limit"}
budget(op) == [op |-> op, accounts |-> <<>>, tail |-> <<>>]

\* Mutant: the compute unit limit goes to the end.
with_priority_fee_pushed(limited) ==
  /\ outcome = "open"
  /\ Len(ixs) <= MaxCalls
  /\ ixs' = <<budget("price")>> \o ixs \o (IF limited THEN <<budget("limit")>> ELSE <<>>)
  /\ UNCHANGED <<account_data, legacy, lookup_tables, outcome, calls>>

\* At the front, and so in front of those of an earlier call.
with_priority_fee(limited) ==
  /\ outcome = "open"
  /\ Len(ixs) <= MaxCalls
  /\ ixs' = <<budget("price")>> \o (IF limited THEN <<budget("limit")>> ELSE <<>>) \o ixs
  /\ UNCHANGED <<account_data, legacy, lookup_tables, outcome, calls>>

set_legacy ==
  /\ outcome = "open"
  /\ legacy' = TRUE
  /\ UNCHANGED <<account_data, ixs, lookup_tables, outcome, calls>>

\* The tables of an earlier call are dropped, the program's is not.
set_lookup_tables ==
  /\ outcome = "open"
  /\ lookup_tables' = <<"given", "program">>
  /\ UNCHANGED <<account_data, ixs, legacy, outcome, calls>>

build ==
  /\ outcome = "open"
  /\ outcome' = "built"
  /\ UNCHANGED <<account_data, ixs, legacy, lookup_tables, calls>>

BuilderNext ==
  \/ \E m \in MarketId :
       \/ Transfer("deposit", m) \/ Transfer("withdraw", m)
       \/ cancel_orders(m)
       \/ \E referrer \in {"none", "other"} : place_and_take(m, <<>>, referrer)
       \/ \E other \in Counterparties :
            \/ \E referrer \in {"none", "other"} : place_and_make(m, other, referrer)
            \/ \E referrer \in {"none", "maker", "other"} : place_and_take(m, <<other>>, referrer)
  \/ \E markets \in OrderLists : place_orders(markets)
  \/ Cancel("cancel_all_orders") \/ Cancel("cancel_orders_by_id")
  \/ \E n \in 0..MaxCalls :
       \/ ForEachOrder("cancel_orders_by_user_id", n)
       \/ ForEachOrder("modify_orders", n)
       \/ ForEachOrder("modify_orders_by_user_id", n)
  \/ \E limited \in BOOLEAN : with_priority_fee(limited)
  \/ set_legacy
  \/ set_lookup_tables
  \/ build

BuilderSpec == BuilderInit /\ [][BuilderNext]_builder_vars

-----------------------------------------------------------------------------
\* The instruction of the i-th call: those in front of them are no call's.
instruction(i) == ixs[Len(ixs) - Len(calls) + i]

\* What the program reads or writes for a call: the markets it names, those
\* of every position of its users, and the quote market.
held(slots, kind) ==
  {[kind |-> kind, index |-> p.market_index] : p \in {q \in ToSet(slots) : ~q.available}}

named(req) ==
  ToSet(req.writable) \cup ToSet(req.readable) \cup {QUOTE_SPOT}
    \cup UNION {held(u.spot_positions, "spot") \cup held(u.perp_positions, "perp") :
                u \in ToSet(req.users)}

share_bit(req) == \E m, n \in named(req) : m # n /\ bit(m) = bit(n)

accounts_of(markets, written) ==
  {market_account(m, m \in written) : m \in markets} \cup {oracle_account(m) : m \in markets}

(* As long as no two of these markets share a bit of `seen', an instruction  *)
(* has the account and the oracle of each of them and no other account, and  *)
(* those the call writes are writable even where another position or the     *)
(* quote market would only be read (lib.rs:1606-1612).                       *)
AccountsExact ==
  \A i \in DOMAIN calls :
    LET req == calls[i]
    IN ~share_bit(req) =>
         ToSet(instruction(i).accounts) = accounts_of(named(req), ToSet(req.writable))

(* And where markets share a bit, as from index 64 on, an instruction has    *)
(* the account and the oracle of just one of them, a known one, and one that *)
(* is only read never keeps out one that the call writes (lib.rs:1628-1643). *)
(* That is what the code does; the others, known or not, are left out in     *)
(* silence, which its doc does not allow: see UnknownMarketPanics.           *)
OnePerBit ==
  \A i \in DOMAIN calls :
    LET req      == calls[i]
        written  == ToSet(req.writable)
        accounts == ToSet(instruction(i).accounts)
        served   == {m \in named(req) \cap DOMAIN KeyOf :
                       market_account(m, m \in written) \in accounts}
    IN /\ accounts = accounts_of(served, written)
       /\ \A m, n \in served : bit(m) = bit(n) => m = n
       /\ \A m \in named(req) :
            \E n \in served : bit(n) = bit(m) /\ (m \in written => n \in written)

(* No call returns for a user with a position in a market the SDK does not   *)
(* know: the doc of build_accounts says it panics (lib.rs:1613-1614).  The   *)
(* code returns when another market has the bit of the unknown one.          *)
UnknownMarketPanics ==
  \A i \in DOMAIN calls :
    \A u \in ToSet(calls[i].users) :
      held(u.spot_positions, "spot") \cup held(u.perp_positions, "perp") \subseteq DOMAIN KeyOf

(* The order the program reads them in: oracles, spot markets, perp markets, *)
(* by key within a type, none twice, though markets share oracles and are    *)
(* named again and again (lib.rs:1622).                                      *)
AccountsSorted ==
  \A i \in DOMAIN ixs :
    \A j \in 1..(Len(ixs[i].accounts) - 1) : before(ixs[i].accounts[j], ixs[i].accounts[j + 1])

(* However the calls come, the compute budget instructions lead and the      *)
(* others follow in the order of the calls, an instruction per call and      *)
(* order.                                                                    *)
InstructionsInOrder ==
  /\ Len(calls) <= Len(ixs)
  /\ \A i \in 1..(Len(ixs) - Len(calls)) : ixs[i].op \in ComputeBudget
  /\ \A i \in DOMAIN calls : instruction(i).op = calls[i].op
=============================================================================
