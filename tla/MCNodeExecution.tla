-------------------------- MODULE MCNodeExecution --------------------------
(***************************************************************************)
(* An instance with a system contract s, a user contract u with two        *)
(* versions of its code, and the accounts a and u.                         *)
(***************************************************************************)
EXTENDS NodeExecution, SequencesExt

MCKeys == 1 .. 14

\* 1-3 metadata, 4-5 dispatch, 6-7 code, 8-9 and 14 contract metadata, 10-11
\* nonces, 12-13 the space of u.
MCSpaceOf(k) ==
    CASE k <= 3 -> "metadata" [] k \in 4 .. 5 -> "dispatch" [] k \in 6 .. 7 -> "code"
      [] k \in {8, 9, 14} -> "contract" [] k \in 10 .. 11 -> "nonce" [] OTHER -> "u"

MCZone(k) == IF k \in 12 .. 13 THEN "u" ELSE ""

MCDispatchKey(id) == IF id = "event" THEN 5 ELSE 4
MCCodeKey(c)  == IF c = "s" THEN 6 ELSE 7
MCMetaKey(c)  == CASE c = "s" -> 8 [] c = "u" -> 9 [] OTHER -> 14
MCNonceKey(p) == IF p = "a" THEN 10 ELSE 11

Obj(n) == <<"obj", n>>

\* Objects have the size they carry, everything else is one byte long.
MCSize(v) == IF v = NoValue THEN 0 ELSE IF v[1] = "obj" THEN v[2] ELSE 1

MCGenesisDisk ==
    [objects |-> [k \in MCKeys |->
        CASE k = 1 -> <<"block", 0>> [] k = 2 -> <<"config">>
          [] k = 6 -> <<"code", "s1">> [] k = 7 -> <<"code", "u1">>
          [] k = 8 -> <<"meta", "s1", TRUE, {}>> [] k = 9 -> <<"meta", "u1", FALSE, {"transaction_application"}>>
          [] k \in 12 .. 13 -> Obj(1)
          [] OTHER -> <<>>],
     size |-> 8, revision |-> 0]

Ins(name, key, val, echo, thunk) ==
    [call |-> name, key |-> key, val |-> val, echo |-> echo, thunk |-> thunk,
     code |-> "success", obj |-> TRUE]

Put(k, v)  == Ins("put_object", k, v, FALSE, FALSE)
Copy(k)    == Ins("put_object", k, Obj(1), TRUE, FALSE)
Del(k)     == Ins("remove_object", k, NoValue, FALSE, FALSE)
Succ(k)    == Ins("get_next_object", k, NoValue, FALSE, FALSE)
Pred(k)    == Ins("get_prev_object", k, NoValue, FALSE, FALSE)
Emit       == Ins("event", 1, NoValue, FALSE, FALSE)
Exit       == Ins("exit", 1, NoValue, FALSE, FALSE)
AsThunk(i) == [i EXCEPT !.thunk = TRUE]

MCScript(code, entry) ==
    CASE code = "u1" /\ entry = "main"      -> <<Emit, Put(12, Obj(2)), Succ(12), Copy(12), Exit>>
      [] code = "u1" /\ entry = "authorize" -> <<Del(13), Put(13, Obj(1)), Exit>>
      [] code = "u2" /\ entry = "main"      -> <<Del(13), Pred(13), Copy(12), Exit>>
      [] code = "u2" /\ entry = "authorize" -> <<Put(13, Obj(2)), Exit>>
      [] code = "s1" -> <<AsThunk(Put(3, Obj(1))), AsThunk(Emit), Exit>>

MCCompute(name) == 1

Trx(id, payer, nonce, limit, ops, signers) ==
    [id |-> id, payer |-> payer, nonce |-> nonce, limit |-> limit, ops |-> ops,
     signers |-> signers]

CallOp(c)      == [op |-> "call", contract |-> c]
UploadOp(c)    == [op |-> "upload", contract |-> c, code |-> "u2",
                   authorizes |-> {"transaction_application"}]
OverrideOp(id) == [op |-> "setcall", id |-> id, target |-> <<"bundle", "s">>]
SystemOp(c)    == [op |-> "setcontract", contract |-> c, system |-> TRUE]

MCTransactions ==
    { Trx("t1", "a", 2, 60, <<SystemOp("u"), CallOp("u")>>, {"a", "g"}),
      Trx("t2", "a", 1, 100, <<UploadOp("u")>>, {"a", "u"}),
      Trx("t3", "a", 1, 100, <<UploadOp("u")>>, {"a"}),
      Trx("t4", "a", 1, 100, <<OverrideOp("event"), OverrideOp("consume_account_rc")>>,
          {"a", "g"}),
      Trx("t5", "u", 1, 100, <<CallOp("u")>>, {"u"}) }

\* Blocks of up to two transactions, no two of them with the same nonce.
MCBodies ==
    { s \in SeqOf(MCTransactions, 2) :
        IsInjective([i \in DOMAIN s |-> <<s[i].payer, s[i].nonce>>]) }

MCPendingNonces == {-2, 0}

MCLimit == [disk |-> 100, network |-> 100, compute |-> 500]
MCPrice == [disk |-> 1, network |-> 1, compute |-> 1]

===========================================================================
