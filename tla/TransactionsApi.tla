---------------------------- MODULE TransactionsApi ----------------------------
(***************************************************************************)
(* GET /transactions?start&limit (api/src/transactions.rs) served while   *)
(* the ledger keeps committing, to a client that pages through the ledger  *)
(* from version 0, asking each time from the version after the last one it *)
(* got.  Transactions::new reads the latest ledger info; list then reads   *)
(* the page from storage pinned at that ledger version.  A transaction is  *)
(* its version: payloads, infos and events are left out, but a storage     *)
(* read whose lengths disagree, or whose events cannot be annotated, is an *)
(* error response.                                                         *)
(***************************************************************************)
EXTENDS Naturals

CONSTANTS
    MaxLedger,  \* bound on the ledger version
    MaxLimit    \* the largest `limit` the client sends

ASSUME ApiAssumption == MaxLedger \in Nat /\ MaxLimit \in Nat \ {0}

VARIABLES
    ledger,     \* the latest committed version (genesis is version 0)
    req,        \* the request being served: its ledger info and parameters
    resp,       \* the last response
    next        \* the client: the start of its next request

vars == <<ledger, req, resp, next>>

NoReq == [pc |-> "idle", li |-> 0, start |-> 0, limit |-> 0]

NoResp == [kind |-> "none", li |-> 0, start |-> 0, limit |-> 0, versions |-> {}]

\* Context::get_transactions(start, limit, ledger_version): the
\* transactions from start, at most limit of them, none past ledger_version;
\* first_transaction_version is start.
GetTransactions(start, limit, lv) ==
    [first |-> start, count |-> IF start + limit <= lv + 1 THEN limit ELSE lv + 1 - start]

\* Mutation of Labels: transactions numbered from 1 within the page.
LabelsShifted(data) == {data.first + i : i \in 1..data.count}

\* The versions the response labels its transactions with:
\* txn_start_version + i for the i-th of them.
Labels(data) == {data.first + i : i \in 0..(data.count - 1)}

Init ==
    /\ ledger = 0
    /\ req = NoReq
    /\ resp = NoResp
    /\ next = 0

\* A transaction commits.
Commit ==
    /\ ledger < MaxLedger
    /\ ledger' = ledger + 1
    /\ UNCHANGED <<req, resp, next>>

\* handle_get_transactions: Transactions::new reads the latest ledger info;
\* the client's page is start = next, limit = l.
New(l) ==
    /\ req.pc = "idle"
    /\ req' = [pc |-> "list", li |-> ledger, start |-> next, limit |-> l]
    /\ UNCHANGED <<ledger, resp, next>>

\* list(page): 404 past the ledger info's version, else the page read at
\* that version; the client moves past the versions it got.
List ==
    LET data == GetTransactions(req.start, req.limit, req.li)
        page == IF req.start > req.li
                   THEN [kind |-> "notfound", li |-> req.li, start |-> req.start,
                         limit |-> req.limit, versions |-> {}]
                   ELSE [kind |-> "ok", li |-> req.li, start |-> req.start,
                         limit |-> req.limit, versions |-> Labels(data)]
    IN /\ req.pc = "list"
       /\ resp' = page
       /\ next' = IF page.kind = "ok" THEN req.start + data.count ELSE next
       /\ req' = NoReq
       /\ UNCHANGED ledger

\* list fails after the read: the lengths of transactions, infos and events
\* disagree, or an event cannot be annotated; the client will ask again.
ListFails ==
    /\ req.pc = "list"
    /\ req.start <= req.li
    /\ resp' = [kind |-> "error", li |-> req.li, start |-> req.start,
                 limit |-> req.limit, versions |-> {}]
    /\ req' = NoReq
    /\ UNCHANGED <<ledger, next>>

Next ==
    \/ Commit
    \/ \E l \in 1..MaxLimit : New(l)
    \/ List
    \/ ListFails

Spec == Init /\ [][Next]_vars

\* Every type is kept.
TypeOK ==
    /\ ledger \in 0..MaxLedger
    /\ req.pc \in {"idle", "list"} /\ req.li \in 0..MaxLedger
    /\ next \in 0..(MaxLedger + 1)

\* A response is 404 exactly when the requested start lies past the ledger
\* version it reports, and otherwise is the full page: the versions from
\* start on, as many as limit allows up to that ledger version, none past it.
PageExact ==
    resp.kind \in {"ok", "notfound"} =>
        /\ (resp.kind = "notfound") = (resp.start > resp.li)
        /\ resp.kind = "ok" =>
              resp.versions = {x \in resp.start..resp.li : x < resp.start + resp.limit}

=============================================================================
