------------------------- MODULE TransactionsApiProofs -------------------------
(***************************************************************************)
(* Proof that every response of GET /transactions is 404 exactly past the *)
(* ledger version it reports and otherwise the exact page, for every      *)
(* ledger bound and limit.  PageExact is not inductive alone: a List step *)
(* builds the response from the pending request, so the invariant also    *)
(* says that the request's fields, the ledger version and the client's   *)
(* next start are natural numbers (ReqOK).                                 *)
(***************************************************************************)
EXTENDS TransactionsApi, TLAPS

ReqOK == req \in [pc : {"idle", "list"}, li : Nat, start : Nat, limit : Nat]

Inv == ledger \in Nat /\ next \in Nat /\ ReqOK /\ PageExact

\* The versions list labels its page with are the versions from start on,
\* as many as limit allows, none past the ledger version.
LEMMA PageLabels ==
    ASSUME NEW s \in Nat, NEW l \in Nat, NEW li \in Nat, s <= li
    PROVE  Labels(GetTransactions(s, l, li)) = {x \in s..li : x < s + l}
    <1> DEFINE n == GetTransactions(s, l, li).count
    <1>1. n = IF s + l <= li + 1 THEN l ELSE li + 1 - s
        BY DEF GetTransactions
    <1>2. Labels(GetTransactions(s, l, li)) = {s + i : i \in 0..(n - 1)}
        BY DEF Labels, GetTransactions
    <1>3. ASSUME NEW i \in 0..(n - 1) PROVE s + i \in s..li /\ s + i < s + l
        BY <1>1
    <1>4. ASSUME NEW x \in s..li, x < s + l PROVE x - s \in 0..(n - 1)
        <2>1. x \in Nat /\ s <= x /\ x <= li
            OBVIOUS
        <2>2. x - s <= n - 1
            BY <1>1, <1>4, <2>1
        <2> QED
            BY <2>1, <2>2
    <1>5. {s + i : i \in 0..(n - 1)} = {x \in s..li : x < s + l}
        <2>1. ASSUME NEW x \in {x \in s..li : x < s + l}
              PROVE  \E i \in 0..(n - 1) : x = s + i
            <3>1. x - s \in 0..(n - 1) /\ x = s + (x - s)
                BY <1>4
            <3> QED
                BY <3>1
        <2> QED
            BY <1>3, <2>1
    <1> QED
        BY <1>2, <1>5

LEMMA InitInv == Init => Inv
    BY DEF Init, Inv, ReqOK, NoReq, PageExact, NoResp

LEMMA NextInv == Inv /\ [Next]_vars => Inv'
    <1> SUFFICES ASSUME Inv, [Next]_vars PROVE Inv'
        OBVIOUS
    <1>1. CASE Commit
        BY <1>1 DEF Commit, Inv, ReqOK, PageExact
    <1>2. ASSUME NEW l \in 1..MaxLimit, New(l)
          PROVE  Inv'
        BY <1>2 DEF New, Inv, ReqOK, PageExact
    <1>3. CASE List
        <2> DEFINE data == GetTransactions(req.start, req.limit, req.li)
        <2>1. req.start \in Nat /\ req.limit \in Nat /\ req.li \in Nat
            BY DEF Inv, ReqOK
        <2>2. CASE req.start > req.li
            BY <1>3, <2>2 DEF List, Inv, ReqOK, PageExact, NoReq
        <2>3. CASE ~(req.start > req.li)
            <3>1. Labels(data) = {x \in req.start..req.li : x < req.start + req.limit}
                BY <2>1, <2>3, PageLabels
            <3>2. data.count \in Nat
                BY <2>1, <2>3 DEF GetTransactions
            <3> QED
                BY <1>3, <2>1, <2>3, <3>1, <3>2 DEF List, Inv, ReqOK, PageExact, NoReq
        <2> QED
            BY <2>2, <2>3
    <1>4. CASE ListFails
        BY <1>4 DEF ListFails, Inv, ReqOK, PageExact, NoReq
    <1>5. CASE UNCHANGED vars
        BY <1>5 DEF vars, Inv, ReqOK, PageExact
    <1> QED
        BY <1>1, <1>2, <1>3, <1>4, <1>5 DEF Next

\* Every response the handler gives is 404 exactly when the start lies past
\* the ledger version read by Transactions::new, and otherwise the exact page.
THEOREM PageExactInvariant == Spec => []PageExact
    <1>1. Spec => []Inv
        BY InitInv, NextInv, PTL DEF Spec
    <1> QED
        BY <1>1, PTL DEF Inv

=============================================================================
