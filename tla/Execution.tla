----------------------------- MODULE Execution -----------------------------
(***************************************************************************)
(* Execution of blocks and transactions: execution_context, the dispatch   *)
(* of system calls to thunks or to contracts that override them, the host  *)
(* interface contracts call through, and the thunks.                       *)
(*                                                                         *)
(* Execution is sequential, so an API call is one operator on a context    *)
(* record.  A C++ exception in flight is its exc field ("reversion",       *)
(* "failure" or "success"); every operator leaves a context with one alone *)
(* unless it catches it, so a thunk body is a chain of contexts.  A return *)
(* value is the val field.                                                 *)
(*                                                                         *)
(* The module is parameterised by the operations of the storage, and by    *)
(* what contracts do: wasm is outside the code and is a script of host     *)
(* calls for each code and entry point.                                    *)
(***************************************************************************)
EXTENDS ResourceMeter

LOCAL INSTANCE SequencesExt

CONSTANTS
    GetObject(_, _, _), PutObject(_, _, _, _), RemoveObject(_, _, _, _),
    NextObject(_, _, _), PrevObject(_, _, _),
    MakeChild(_), DropTo(_, _), Squash(_), Newest(_), View(_, _),
    NoValue,
    Size(_),           \* the length of a value
    SpaceOf(_),        \* the object space of a key
    Zone(_),           \* the contract whose space it is, "" for system spaces
    BlockKey, ConfigKey, DispatchKey(_), CodeKey(_), MetaKey(_), NonceKey(_),
    Overridable,       \* the system calls that have a dispatch entry in the model
    Script(_, _),      \* the host calls of a code at an entry point
    Compute(_),        \* the compute bandwidth registry
    Genesis,           \* the address with system authority
    MaxRc,             \* max_account_resources
    StackLimit         \* execution_context::stack_limit

Kernel == [contract |-> "", priv |-> "kernel", entry |-> "none"]

NoTrx == [id |-> "none"]

\* A dispatch decision not taken yet, and one for the thunk of the call.
Unresolved == [kind |-> "unresolved"]
ByThunk    == [kind |-> "thunk"]

\* A fresh execution_context on node n of the storage, after push_frame,
\* set_state_node and reset_cache.
NewContext(st, n, parent, intent) ==
    [st |-> st, node |-> n, parent |-> parent, intent |-> intent,
     stack |-> <<Kernel>>, meter |-> NewMeter,
     table |-> [id \in Overridable |-> Unresolved],
     trx |-> NoTrx, op |-> "none", mempoolNonce |-> -1,
     result |-> [code |-> "success", obj |-> FALSE],
     exc |-> "none", val |-> NoValue,
     events |-> <<>>, receipts |-> <<>>, failed |-> {},
     skipped |-> 0]   \* history: compute of transactions left without a receipt

Ok(c) == c.exc = "none"

Throw(c, exc) == [c EXCEPT !.exc = exc]

\* KOINOS_ASSERT.
Require(c, condition, exc) == IF Ok(c) /\ ~condition THEN Throw(c, exc) ELSE c

Return(c, v) == IF Ok(c) THEN [c EXCEPT !.val = v] ELSE c

RequireTrue(c, exc) == Require(c, c.val = TRUE, exc)

RequireFound(c, exc) == Require(c, c.val # NoValue, exc)

\* A use of the meter that may throw.
Charge(c, used) ==
    IF ~Ok(c) THEN c ELSE [c EXCEPT !.meter = used.meter, !.exc = used.exc]

\* The outcome of a thunk whose statements leave these contexts, one after the
\* other.
InOrder(contexts) == contexts[Len(contexts)]

---------------------------------------------------------------------------
(* The stack of frames *)

\* push_frame.
Push(c, frame) ==
    IF ~Ok(c) THEN c
    ELSE IF Len(c.stack) >= StackLimit THEN Throw(c, "reversion")
    ELSE [c EXCEPT !.stack = Append(@, frame)]

\* The end of with_stack_frame and of with_privilege: however their body ended,
\* the stack is the one it was in context c.
Restored(after, c) == [after EXCEPT !.stack = c.stack]

\* with_privilege on the top frame.
SetPrivilege(c, priv) == [c EXCEPT !.stack[Len(c.stack)].priv = priv]

\* The frame below the top: get_caller, get_caller_privilege, get_caller_entry_point.
CallerFrame(c) ==
    IF Len(c.stack) > 1 THEN c.stack[Len(c.stack) - 1] ELSE Kernel

\* assert_permissions on the space of a key.
MayAccess(c, k) ==
    LET caller == CallerFrame(c)
    IN  IF caller.priv = "kernel" THEN Zone(k) = ""
        ELSE Zone(k) # "" /\ Zone(k) = caller.contract

---------------------------------------------------------------------------
(* Dispatch *)

Received(c, got) == [c EXCEPT !.st = got.st, !.val = got.val]

Read(c, n, k) == IF Ok(c) THEN Received(c, GetObject(c.st, n, k)) ELSE c

\* The contract of a dispatch entry, after its metadata and its code were read.
BindContract(contract, id, meta, code) ==
    IF NoValue \in {meta.val, code.val} THEN Throw(code, "reversion")
    ELSE [code EXCEPT !.table[id] = [kind |-> "contract", contract |-> contract,
                                     code |-> code.val[2], system |-> meta.val[3]]]

BindCode(contract, n, id, meta) ==
    BindContract(contract, id, meta, Read(meta, n, CodeKey(contract)))

\* What the dispatch entry read from node n makes of a call.
Bind(target, n, id) ==
    IF target.val = NoValue \/ target.val[1] = "thunk"
    THEN [target EXCEPT !.table[id] = ByThunk]
    ELSE BindCode(target.val[2], n, id, Read(target, n, MetaKey(target.val[2])))

\* Mutant: the dispatch table is read from the node being written.
CacheSystemCallCurrent(c, id) ==
    IF ~Ok(c) \/ id \notin Overridable \/ c.table[id] # Unresolved THEN c
    ELSE Bind(Read(c, c.node, DispatchKey(id)), c.node, id)

\* cache_system_call: the first use of a call in a context looks its override
\* up in the parent node, with the contract's metadata and code.
CacheSystemCall(c, id) ==
    IF ~Ok(c) \/ id \notin Overridable \/ c.table[id] # Unresolved THEN c
    ELSE Bind(Read(c, c.parent, DispatchKey(id)), c.parent, id)

\* system_call_exists.
Overridden(c, id) == Ok(c) /\ id \in Overridable /\ c.table[id].kind = "contract"

RECURSIVE CallThrough(_, _, _, _)
RECURSIVE Thunk(_, _, _)
RECURSIVE HostStep(_, _)
RECURSIVE Run(_, _)

\* vm_backend::run: the host calls of a script, one after the other.
Run(c, script) ==
    IF c.exc # "none" \/ script = <<>> THEN c ELSE Run(HostStep(c, Head(script)), Tail(script))

\* A contract that ended by success_exception ended well.
Ended(c) == IF c.exc = "success" THEN [c EXCEPT !.exc = "none"] ELSE c

PrivilegeOf(system) == IF system THEN "kernel" ELSE "user"

\* What the caller of a contract gets: the object of the result, and its stack.
Answered(c, ended) == Return(Restored(ended, c), ended.result.obj)

\* execution_context::system_call runs the contract bound to the call; the
\* result is whatever exit last set.
RunOverride(c, id) ==
    LET bundle == c.table[id]
        frame  == [contract |-> bundle.contract, entry |-> "main",
                   priv |-> PrivilegeOf(bundle.system)]
    IN  Answered(c, Ended(Run(Push(c, frame), Script(bundle.code, "main"))))

\* The exception a result code stands for.
ThrowCode(c) ==
    IF Ok(c) /\ c.result.code \in {"reversion", "failure"} THEN Throw(c, c.result.code) ELSE c

Judged(c, strict) == IF strict THEN ThrowCode(c) ELSE c

\* thunk_translation and the charge of the thunk.
Translated(c, id) == Charge(c, UseCompute(c.meter, Compute(id)))

\* The override of a call, whose result code counts if strict, or the thunk.
Dispatch(c, id, args, strict) ==
    IF Overridden(c, id) THEN Judged(RunOverride(c, id), strict)
    ELSE Thunk(Translated(c, id), id, args)

\* A call in a kernel frame of its own.
CallThrough(c, id, args, strict) ==
    Restored(Dispatch(CacheSystemCall(Push(c, Kernel), id), id, args, strict), c)

\* system_call::X, the form thunks call one another through: the result code of
\* an override becomes an exception.
SystemCall(c, id, args) == CallThrough(c, id, args, TRUE)

\* host_api::call, the form contracts reach: it does not look at the result code.
HostCall(c, id, args) == CallThrough(c, id, args, FALSE)

---------------------------------------------------------------------------
(* The host interface of contracts *)

TopPrivilege(c) == c.stack[Len(c.stack)].priv

\* use_meter_ticks: ticks beyond what is left use the rest up and throw.
UseMeterTicks(c, ticks) ==
    LET left == ComputeRemaining(c.meter)
    IN  IF ticks <= left THEN Charge(c, UseCompute(c.meter, ticks))
        ELSE LET rest == Charge(c, UseCompute(c.meter, left))
             IN  Charge(rest, UseCompute(rest.meter, 1))

\* A host call that threw gives the contract its code and no value.
Caught(r) == [r EXCEPT !.exc = "none", !.val = IF Ok(r) THEN @ ELSE NoValue]

\* How exit leaves a contract, r being what the call of exit did.
Exited(r) == Throw(r, IF Ok(r) THEN "success" ELSE r.exc)

\* What call made of a host call: an exception becomes a code the contract gets
\* back, except for exit, which always throws.
HostResult(call, r) == IF call = "exit" THEN Exited(r) ELSE Caught(r)

\* A reversion of user code is not turned into a code.
UserResult(c, call, r) ==
    IF TopPrivilege(c) = "user" /\ r.exc = "reversion" THEN r ELSE HostResult(call, r)

\* host_api::invoke_system_call.
InvokeSystemCall(c, ins) == UserResult(c, ins.call, HostCall(c, ins.call, ins))

\* host_api::invoke_thunk, for system contracts: no frame, no override.
InvokeThunk(c, ins) ==
    IF TopPrivilege(c) = "kernel" THEN HostResult(ins.call, Thunk(c, ins.call, ins))
    ELSE Throw(c, "reversion")

\* The arguments a contract passes; with echo it stores what it just read.
Arguments(c, ins) ==
    IF ins.echo /\ c.val # NoValue THEN [ins EXCEPT !.val = c.val] ELSE ins

Invoke(c, ins) ==
    IF ~Ok(c) THEN c
    ELSE IF ins.call = "trap" THEN Throw(c, "reversion")
    ELSE IF ins.thunk THEN InvokeThunk(c, ins) ELSE InvokeSystemCall(c, ins)

\* _invoke_system_call and _invoke_thunk of the runner: the ticks since the
\* last host call are charged, and an exception traps the module.
HostStep(c, ins) == Invoke(UseMeterTicks(c, 1), Arguments(c, ins))

---------------------------------------------------------------------------
(* Thunks: the database *)

ReadOnly(c) == c.intent = "read_only"

\* The bytes of an object are charged as they are serialised.
ChargeBytes(c, v) ==
    Charge(c, UseCompute(c.meter, Compute("object_serialization_per_byte") * Size(v)))

NotReadOnly(c) == Require(c, ~ReadOnly(c), "reversion")

Permitted(c, key) == Require(c, MayAccess(c, key), "reversion")

\* The write is made before the disk it takes is charged, or given back.
ChargeDisk(c, wrote) == Charge([c EXCEPT !.st = wrote.st], UseDisk(c.meter, wrote.bytes))

PutPermitted(c, key, val) ==
    IF Ok(c) THEN ChargeDisk(c, PutObject(c.st, c.node, key, val)) ELSE c

RemovePermitted(c, key) ==
    IF Ok(c) THEN ChargeDisk(c, RemoveObject(c.st, c.node, key, FALSE)) ELSE c

\* put_object.
ThunkPutObject(c, key, val) ==
    PutPermitted(Permitted(ChargeBytes(NotReadOnly(c), val), key), key, val)

\* remove_object.
ThunkRemoveObject(c, key) == RemovePermitted(Permitted(NotReadOnly(c), key), key)

\* get_object, get_next_object and get_prev_object: what is found is charged
\* and returned; got is the storage's answer.
ChargeFound(c, got) == IF got.val = NoValue THEN c ELSE ChargeBytes(c, got.val)

ThunkFind(c, key, got) ==
    IF MayAccess(c, key) THEN Return(ChargeFound([c EXCEPT !.st = got.st], got), got.val)
    ELSE Throw(c, "reversion")

ThunkGetObject(c, key) == ThunkFind(c, key, GetObject(c.st, c.node, key))

ThunkGetNextObject(c, key) == ThunkFind(c, key, NextObject(c.st, c.node, key))

ThunkGetPrevObject(c, key) == ThunkFind(c, key, PrevObject(c.st, c.node, key))

\* The forms other thunks use.
PutSystem(c, k, v) == SystemCall(c, "put_object", [key |-> k, val |-> v])
GetSystem(c, k)    == SystemCall(c, "get_object", [key |-> k])

---------------------------------------------------------------------------
(* Thunks: events, contracts, authority *)

\* event: the chronicler keeps it for the block, the live session for the
\* transaction's receipt.
ThunkEvent(c) ==
    LET event == [trx |-> c.trx.id, source |-> CallerFrame(c).contract]
        c1    == Charge(c, UseCompute(c.meter, Compute("event_per_impacted")))
    IN  IF ~Ok(c1) THEN c1
        ELSE [c1 EXCEPT !.events = Append(@, event),
                        !.meter.session.events =
                            IF c1.meter.session.alive THEN Append(@, event) ELSE @]

\* The contract runs in a frame of its own privilege, and its result code becomes
\* an exception.
CallCode(c, frame, code) ==
    IF ~Ok(c) THEN c
    ELSE IF frame.entry = "authorize" /\ CallerFrame(c).priv # "kernel"
    THEN Throw(c, "reversion")
    ELSE Answered(c, ThrowCode(Ended(Run(Push(c, frame), Script(code, frame.entry)))))

CallContract(contract, entry, code, meta) ==
    CallCode(meta, [contract |-> contract, entry |-> entry,
                    priv |-> PrivilegeOf(meta.val[3])], code.val[2])

CallFound(contract, entry, code) ==
    CallContract(contract, entry, code,
                 RequireFound(GetSystem(code, MetaKey(contract)), "reversion"))

\* call: code and metadata are read in kernel mode first.
ThunkCall(c, contract, entry) ==
    CallFound(contract, entry, RequireFound(GetSystem(c, CodeKey(contract)), "reversion"))

\* exit: the result is recorded, then the matching exception ends the contract.
ThunkExit(c, a) == Throw([c EXCEPT !.result = [code |-> a.code, obj |-> a.obj]], a.code)

\* An account is among those whose keys the signatures of the transaction give.
Signed(c, account) ==
    LET recovered == SystemCall(Require(c, c.trx # NoTrx, "reversion"),
                                "recover_public_key", <<>>)
    IN  Return(recovered, account \in c.trx.signers)

\* The account's contract decides when its metadata says so for this kind of
\* authorisation, otherwise the transaction's signatures do.
Authorized(meta, kind, account) ==
    IF Ok(meta) /\ meta.val # NoValue /\ kind \in meta.val[4]
    THEN SystemCall(meta, "call", [contract |-> account, entry |-> "authorize"])
    ELSE Signed(meta, account)

\* check_authority.
ThunkCheckAuthority(c, account) ==
    LET kind == IF CallerFrame(c).contract # "" THEN "contract_call"
                ELSE IF c.op = "upload" THEN "contract_upload"
                ELSE "transaction_application"
    IN  Authorized(GetSystem(NotReadOnly(c), MetaKey(account)), kind, account)

\* check_system_authority, after the genesis key was read.
ThunkCheckSystemAuthority(c) == Signed(GetSystem(c, ConfigKey), Genesis)

---------------------------------------------------------------------------
(* Thunks: nonces *)

NonceOf(v) == IF v = NoValue THEN 0 ELSE v[2]

ThunkGetAccountNonce(c, account) ==
    LET got == GetSystem(c, NonceKey(account)) IN Return(got, NonceOf(got.val))

\* verify_account_nonce: the mempool's nonce, when the caller gave one, decides.
ThunkVerifyAccountNonce(c, account, nonce) ==
    LET got == SystemCall(c, "get_account_nonce", [account |-> account])
    IN  Return(got, nonce = 1 + (IF c.mempoolNonce >= 0 THEN c.mempoolNonce ELSE got.val))

ThunkSetAccountNonce(c, account, nonce) ==
    PutSystem(Require(c, CallerFrame(c).priv = "kernel", "reversion"),
              NonceKey(account), <<"nonce", nonce>>)

---------------------------------------------------------------------------
(* Thunks: the operations of a transaction *)

Privileged(c) ==
    NotReadOnly(Require(c, CallerFrame(c).priv = "kernel", "reversion"))

\* apply_upload_contract_operation: code, then metadata, which keeps whether
\* the contract is a system contract.
ApplyUpload(c, o) ==
    LET c1   == Privileged(c)
        auth == SystemCall(c1, "check_authority", [account |-> o.contract])
        c2   == RequireTrue(auth, "failure")
        old  == GetSystem(c2, MetaKey(o.contract))
        c3   == SystemCall(old, "hash", <<>>)
        c4   == PutSystem(c3, CodeKey(o.contract), <<"code", o.code>>)
        was  == IF old.val = NoValue THEN FALSE ELSE old.val[3]
        c5   == PutSystem(c4, MetaKey(o.contract), <<"meta", o.code, was, o.authorizes>>)
    IN  InOrder(<<c2, old, c4, IF Ok(old) THEN c5 ELSE old>>)

\* apply_call_contract_operation: user mode, and a failure becomes a reversion.
ApplyCall(c, o) ==
    LET c1 == Privileged(c)
        c2 == SystemCall(SetPrivilege(c1, "user"), "call",
                         [contract |-> o.contract, entry |-> "main"])
        c3 == IF Ok(c1) /\ c2.exc = "failure" THEN Throw(c2, "reversion") ELSE c2
    IN  InOrder(<<c2, Restored(c3, c)>>)

\* The two operations that need system authority start the same way.
WithSystemAuthority(c) ==
    RequireTrue(SystemCall(Privileged(c), "check_system_authority", <<>>), "reversion")

\* Code and metadata of a contract that must exist; the value is the metadata.
ExistingContract(c, contract) ==
    LET code == RequireFound(GetSystem(c, CodeKey(contract)), "reversion")
        meta == GetSystem(code, MetaKey(contract))
    IN  InOrder(<<code, RequireFound(meta, "reversion")>>)

RequireSystem(c) == Require(c, c.val[3], "reversion")

\* apply_set_system_call_operation: the target is an existing system contract,
\* or a thunk.
ApplySetSystemCall(c, o) ==
    LET c1    == WithSystemAuthority(c)
        ready == IF o.target[1] = "bundle" THEN RequireSystem(ExistingContract(c1, o.target[2]))
                 ELSE c1
        done  == PutSystem(ready, DispatchKey(o.id), o.target)
    IN  InOrder(<<c1, ready, done, SystemCall(done, "event", <<>>)>>)

SetSystemFlag(meta, o) ==
    IF Ok(meta) THEN PutSystem(meta, MetaKey(o.contract), [meta.val EXCEPT ![3] = o.system])
    ELSE meta

\* apply_set_system_contract_operation.
ApplySetSystemContract(c, o) ==
    LET c1   == WithSystemAuthority(c)
        done == SetSystemFlag(ExistingContract(c1, o.contract), o)
    IN  InOrder(<<c1, done, SystemCall(done, "event", <<>>)>>)

OperationCall(o) ==
    CASE o.op = "upload"      -> "apply_upload_contract_operation"
      [] o.op = "call"        -> "apply_call_contract_operation"
      [] o.op = "setcall"     -> "apply_set_system_call_operation"
      [] o.op = "setcontract" -> "apply_set_system_contract_operation"

---------------------------------------------------------------------------
(* Thunks: apply_transaction *)

ChargeNetwork(c) == Charge(c, UseNetwork(c.meter, 1))

AsFailure(c) == IF Ok(c) THEN c ELSE Throw(c, "failure")

\* The checks before the operations, made on the block's own node and paid by
\* the session; every reversion among them becomes a failure.
CheckTransaction(c, trx) ==
    LET rc     == SystemCall(c, "get_account_rc", <<>>)
        c2     == GetSystem(Require(rc, MaxRc >= trx.limit, "failure"), ConfigKey)  \* the chain id
        c3     == FoldLeft(LAMBDA d, o : SystemCall(d, "hash", <<>>),
                           SystemCall(c2, "hash", <<>>), trx.ops)
        c4     == SystemCall(c3, "verify_merkle_root", <<>>)
        auth   == SystemCall(c4, "check_authority", [account |-> trx.payer])
        nonce  == SystemCall(RequireTrue(auth, "failure"), "verify_account_nonce",
                             [account |-> trx.payer, nonce |-> trx.nonce])
        c5     == SystemCall(RequireTrue(nonce, "failure"), "set_account_nonce",
                             [account |-> trx.payer, nonce |-> trx.nonce])
    IN  InOrder(<<c2, c3, c4, auth, nonce, c5, AsFailure(ChargeNetwork(c5))>>)

RECURSIVE ApplyEach(_, _)

\* The loop over the operations.
ApplyEach(c, ops) ==
    IF c.exc # "none" \/ ops = <<>> THEN [c EXCEPT !.op = "none"]
    ELSE ApplyEach(SystemCall([c EXCEPT !.op = Head(ops).op], OperationCall(Head(ops)),
                              Head(ops)),
                   Tail(ops))

\* Mutant: the operations are committed even when one of them reverted.
ApplyOperationsKept(c, trx) ==
    LET child == [c EXCEPT !.st = MakeChild(@), !.node = c.node + 1]
        pre   == SystemCall(child, "pre_transaction_callback", <<>>)
        ran   == ApplyEach(pre, trx.ops)
        done  == SystemCall(ran, "post_transaction_callback", <<>>)
    IN  [InOrder(<<pre, ran, done>>) EXCEPT !.st = Squash(@), !.node = c.node]

\* The operations, on an anonymous node of their own that is committed into
\* the block's node when all of them went through.
ApplyOperations(c, trx) ==
    LET child == [c EXCEPT !.st = MakeChild(@), !.node = c.node + 1]
        pre   == SystemCall(child, "pre_transaction_callback", <<>>)
        ran   == ApplyEach(pre, trx.ops)
        done  == SystemCall(ran, "post_transaction_callback", <<>>)
    IN  [InOrder(<<pre, ran, done>>) EXCEPT
            !.st = IF Ok(done) THEN Squash(@) ELSE DropTo(@, c.node), !.node = c.node]

\* The receipt of a transaction; whole is a history entry that says whether the
\* operations left the block's node as they found it.
Receipt(trx, reverted, used, from, to, events, whole) ==
    [trx |-> trx.id, reverted |-> reverted, used |-> used, limit |-> trx.limit,
     spent |-> [r \in Resources |-> Used(to, r) - Used(from, r)],
     events |-> events, whole |-> whole]

AddReceipt(c, receipt) == [c EXCEPT !.receipts = Append(@, receipt)]

\* A transaction that fails: the receipt has no figures, the session is gone.
FailTransaction(c, trx, from) ==
    LET ended == [c EXCEPT !.meter = EndSession(@), !.trx = NoTrx, !.op = "none"]
    IN  AddReceipt(ended, Receipt(trx, FALSE, 0, from.meter, from.meter, <<>>, TRUE))

\* Mutant: the session still lives while the payer is charged.
SettleOpen(c) ==
    LET paid == SystemCall([c EXCEPT !.exc = "none"], "consume_account_rc", <<>>)
    IN  [paid EXCEPT !.meter = EndSession(@)]

\* The end of a transaction: its session ends, then the payer is charged.
Settle(c) ==
    SystemCall([c EXCEPT !.exc = "none", !.meter = EndSession(@)], "consume_account_rc", <<>>)

\* The payer is charged what the session used, after the session ended, and a
\* transaction that reverted says so to its caller.
FinishTransaction(c, checked, ran, paid, trx) ==
    LET reverted == ran.exc = "reversion"
        whole    == View(ran.st, ran.node) = View(checked.st, checked.node)
        events   == IF reverted THEN <<>> ELSE ran.meter.session.events
        receipt  == Receipt(trx, reverted, UsedRc(ran.meter), c.meter, ran.meter, events, whole)
        final    == AddReceipt([paid EXCEPT !.trx = NoTrx], receipt)
    IN  IF reverted /\ Ok(paid) THEN Throw(final, "reversion") ELSE final

\* A failure in the operations fails the transaction, except in a proposal, where
\* the thunk returns without a receipt.  A reversion undoes the operations alone.
EndTransaction(c, checked, ran, trx) ==
    IF ran.exc # "failure"
    THEN FinishTransaction(c, checked, ran, RequireTrue(Settle(ran), "failure"), trx)
    ELSE IF c.intent = "block_proposal"
    THEN [ran EXCEPT !.exc = "none", !.meter = EndSession(@), !.trx = NoTrx,
                     !.skipped = @ + Used(ran.meter, "compute") - Used(c.meter, "compute")]
    ELSE FailTransaction(ran, trx, c)

\* A failure in the checks fails the transaction.
OperateTransaction(c, checked, trx) ==
    IF Ok(checked) THEN EndTransaction(c, checked, ApplyOperations(checked, trx), trx)
    ELSE FailTransaction(checked, trx, c)

\* apply_transaction.
ApplyTransaction(c, trx) ==
    LET opened == [c EXCEPT !.trx = trx, !.meter = MakeSession(@, trx.limit)]
    IN  IF Ok(Privileged(c)) THEN OperateTransaction(c, CheckTransaction(opened, trx), trx)
        ELSE Privileged(c)

---------------------------------------------------------------------------
(* Thunks: apply_block *)

\* One transaction of a block: a reversion is only the transaction's, a failure
\* is noted in a proposal and fails the block otherwise.
ApplyOne(c, trx, i) ==
    LET r == SystemCall(c, "apply_transaction", trx)
    IN  IF r.exc = "reversion" THEN [r EXCEPT !.exc = "none"]
        ELSE IF r.exc = "failure" /\ c.intent = "block_proposal"
        THEN [r EXCEPT !.exc = "none", !.failed = @ \cup {i}]
        ELSE r

RECURSIVE ApplyFrom(_, _, _)

\* The loop over the transactions.
ApplyFrom(c, trxs, i) ==
    IF c.exc # "none" \/ i > Len(trxs) THEN c ELSE ApplyFrom(ApplyOne(c, trxs[i], i), trxs, i + 1)

\* The head block is written to the node directly, without charge.
StoreHead(c, block) ==
    IF Ok(c) THEN [c EXCEPT !.st = PutObject(@, c.node, BlockKey, <<"block", block.height>>).st]
    ELSE c

\* Before the transactions: the limits are set, header and merkle root are
\* checked, and the head block is stored.
PrepareBlock(c, block) ==
    LET c1 == SystemCall(c, "get_resource_limits", <<>>)
        c2 == FoldLeft(LAMBDA d, t : SystemCall(d, "hash", <<>>),
                       SystemCall([c1 EXCEPT !.meter = SetLimits(@)], "hash", <<>>), block.trxs)
        c3 == SystemCall(ChargeNetwork(c2), "verify_merkle_root", <<>>)
        c4 == SystemCall(c3, "process_block_signature", <<>>)
        c5 == SystemCall(c4, "pre_block_callback", <<>>)
    IN  InOrder(<<c1, c2, c4, StoreHead(c5, block)>>)

\* After them: the producer pays for what no transaction did.
SettleBlock(c) ==
    LET c1 == SystemCall(c, "post_block_callback", <<>>)
        c2 == RequireTrue(SystemCall(c1, "consume_account_rc", <<>>), "reversion")
        c3 == SystemCall(c2, "consume_block_resources", <<>>)
    IN  InOrder(<<c1, c2, RequireTrue(c3, "failure")>>)

\* apply_block.
ApplyBlock(c, block) ==
    IF CallerFrame(c).priv = "kernel" /\ c.intent \in {"block_application", "block_proposal"}
    THEN SettleBlock(ApplyFrom(PrepareBlock(c, block), block.trxs, 1))
    ELSE Throw(c, "reversion")

---------------------------------------------------------------------------

(* Thunks: the rest *)

\* get_account_rc and get_resource_limits read what genesis configured.
ThunkGetLimits(c) == GetSystem(c, ConfigKey)

\* consume_account_rc and consume_block_resources do nothing by default.
ThunkConsume(c) == Return(c, TRUE)

ThunkGetHeadInfo(c) ==
    GetSystem(SystemCall(c, "get_last_irreversible_block", <<>>), BlockKey)

ThunkProcessBlockSignature(c) ==
    SystemCall(GetSystem(c, ConfigKey), "recover_public_key", <<>>)

\* Calls without effect on what the model keeps: cryptography, whose inputs are
\* taken to be what they claim, and the empty callbacks.
Cryptography == {"hash", "verify_merkle_root", "recover_public_key"}

Callbacks == {"pre_block_callback", "post_block_callback",
              "pre_transaction_callback", "post_transaction_callback"}

\* call_thunk: the thunk an id stands for.
Thunk(c, id, a) ==
    IF ~Ok(c) THEN c ELSE
    CASE id = "put_object"      -> ThunkPutObject(c, a.key, a.val)
      [] id = "remove_object"   -> ThunkRemoveObject(c, a.key)
      [] id = "get_object"      -> ThunkGetObject(c, a.key)
      [] id = "get_next_object" -> ThunkGetNextObject(c, a.key)
      [] id = "get_prev_object" -> ThunkGetPrevObject(c, a.key)
      [] id = "event"           -> ThunkEvent(c)
      [] id = "call"            -> ThunkCall(c, a.contract, a.entry)
      [] id = "exit"            -> ThunkExit(c, a)
      [] id = "check_authority" -> ThunkCheckAuthority(c, a.account)
      [] id = "check_system_authority" -> ThunkCheckSystemAuthority(c)
      [] id = "get_account_nonce"      -> ThunkGetAccountNonce(c, a.account)
      [] id = "verify_account_nonce"   -> ThunkVerifyAccountNonce(c, a.account, a.nonce)
      [] id = "set_account_nonce"      -> ThunkSetAccountNonce(c, a.account, a.nonce)
      [] id \in {"get_account_rc", "get_resource_limits"} -> ThunkGetLimits(c)
      [] id = "get_head_info"           -> ThunkGetHeadInfo(c)
      [] id = "process_block_signature" -> ThunkProcessBlockSignature(c)
      [] id = "apply_upload_contract_operation"     -> ApplyUpload(c, a)
      [] id = "apply_call_contract_operation"       -> ApplyCall(c, a)
      [] id = "apply_set_system_call_operation"     -> ApplySetSystemCall(c, a)
      [] id = "apply_set_system_contract_operation" -> ApplySetSystemContract(c, a)
      [] id = "apply_transaction" -> ApplyTransaction(c, a)
      [] id = "apply_block"       -> ApplyBlock(c, a)
      [] id \in {"consume_account_rc", "consume_block_resources"} -> ThunkConsume(c)
      [] id \in Cryptography \cup Callbacks \cup {"get_last_irreversible_block"} -> c
=============================================================================
