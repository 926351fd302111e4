------------------------------ MODULE LaiExec ------------------------------
(***************************************************************************)
(* The AML interpreter of LAI (lai/core/exec.c).  lai_exec_run processes   *)
(* the top item of the execution stack until the stack is empty; a step of *)
(* this module is one call of lai_exec_process, with the lai_exec_parse it *)
(* makes.  Four stacks hold the state: contexts (code, scope, invocation), *)
(* blocks (program counter and limit), items (what is being executed) and  *)
(* operands.  Each starts with a small capacity and doubles on demand; the *)
(* allocation may fail.                                                    *)
(*                                                                         *)
(* Byte code is a sequence of tokens [op, v, end]: an opcode, its          *)
(* immediate value, name or index, and for package-like opcodes the        *)
(* position after the package.  Integers are exact; of strings, buffers    *)
(* and handles of hardware only the type is kept.                          *)
(***************************************************************************)
EXTENDS LaiNames, LaiOps, TLC

CONSTANTS
  Tables,      \* the byte codes of the possible definition blocks, a set of sequences of tokens
  Methods,     \* names of the methods the host may evaluate
  Inputs,      \* arguments the host may pass to them
  MaxCalls,    \* bound on the evaluations by the host
  SmallSizes   \* initial capacities of the stacks (LAI_SMALL_..._SIZE)

Stacks == {"ctx", "blk", "stk", "op"}

ASSUME ExecAssumption ==
  /\ MaxCalls \in Nat
  /\ SmallSizes \in [Stacks -> Nat \ {0}]

VARIABLES
  table,        \* the definition block of this machine
  status,       \* "new", "populate", "method" or "idle"
  ctxstack,     \* contexts: scope and, if invoked, arguments, locals and the nodes created
  blkstack,     \* blocks: program counter and limit
  stack,        \* execution items
  opstack,      \* operands
  capacity,     \* capacity of each stack
  ns,           \* the namespace, see LaiNames
  calls,        \* evaluations so far, newest last: method, error, result
  made          \* history: the nodes created while a control method was running

vars == <<table, status, ctxstack, blkstack, stack, opstack, capacity, ns, calls, made>>

(* Values and operands. *)
Integer(n) == [type |-> "INTEGER", v |-> n]
Uninit == [type |-> "NONE"]
Object(val) == [tag |-> "OBJECT", v |-> val]
NullName == [tag |-> "NULL_NAME"]
Opaque(type) == [type |-> type]         \* a string, a buffer or a handle
OpaqueInteger == 1                      \* what strings and buffers convert to

(* Contexts: a scope that is being populated, an invocation of a method.   *)
ScopeCtx(n) == [handle |-> n, invoked |-> FALSE, var |-> <<>>, nodes |-> {}]
MethodCtx(n, args) ==
  [handle |-> n, invoked |-> TRUE, nodes |-> {},
   var |-> ("ARG" :> [i \in 0..6 |-> IF i < Len(args) THEN args[i + 1] ELSE Uninit])
           @@ ("LOCAL" :> [i \in 0..7 |-> Uninit])]

-----------------------------------------------------------------------------
(***************************************************************************)
(* The kinds of operands the operators take, from lai_exec_parse: each     *)
(* case of its switch pushes an item with these argument modes.            *)
(***************************************************************************)
ConversionModes ==
  [op \in {"TOBUFFER_OP", "TODECIMALSTRING_OP", "TOHEXSTRING_OP", "TOINTEGER_OP"} |-> <<"OBJECT", "REFERENCE">>]
  @@ ("TOSTRING_OP" :> <<"OBJECT", "OBJECT", "REFERENCE">>)
  @@ ("MID_OP" :> <<"OBJECT", "OBJECT", "OBJECT", "REFERENCE">>)
  @@ ("CONCATRES_OP" :> <<"OBJECT", "OBJECT", "REFERENCE">>)
  @@ ("SIZEOF_OP" :> <<"OBJECT">>)
StoreModes ==
  [op \in {"STORE_OP", "COPYOBJECT_OP", "NOT_OP", "FINDSETLEFTBIT_OP", "FINDSETRIGHTBIT_OP"} |-> <<"OBJECT", "REFERENCE">>]
  @@ ("CONCAT_OP" :> <<"OBJECT", "OBJECT", "REFERENCE">>)
ArithmeticModes ==
  [op \in BinaryOps |-> <<"OBJECT", "OBJECT", "REFERENCE">>]
  @@ ("DIVIDE_OP" :> <<"OBJECT", "OBJECT", "REFERENCE", "REFERENCE">>)
  @@ [op \in {"INCREMENT_OP", "DECREMENT_OP"} |-> <<"REFERENCE">>]
LogicModes ==
  ("LNOT_OP" :> <<"OBJECT">>) @@ [op \in CompareOps \cup {"LAND_OP", "LOR_OP"} |-> <<"OBJECT", "OBJECT">>]
ReferenceModes ==
  ("DEREF_OP" :> <<"OBJECT">>) @@ ("REFOF_OP" :> <<"REFERENCE">>) @@ ("NOTIFY_OP" :> <<"REFERENCE", "OBJECT">>)
  @@ ("CONDREF_OP" :> <<"OPTIONAL_REFERENCE", "REFERENCE">>)
SyncModes ==
  [op \in {"STALL_OP", "SLEEP_OP"} |-> <<"OBJECT">>]
  @@ ("ACQUIRE_OP" :> <<"REFERENCE", "IMMEDIATE">>) @@ ("WAIT_OP" :> <<"REFERENCE", "OBJECT">>)
  @@ [op \in {"RELEASE_OP", "SIGNAL_OP", "RESET_OP"} |-> <<"REFERENCE">>]
BcdModes == [op \in {"FROM_BCD_OP", "TO_BCD_OP"} |-> <<"OBJECT", "REFERENCE">>]
OpModes == ConversionModes @@ StoreModes @@ ArithmeticModes @@ LogicModes @@ ReferenceModes @@ SyncModes @@ BcdModes
NodeModes ==
  ("NAME_OP" :> <<"UNRESOLVED", "OBJECT">>)
  @@ ("BYTEFIELD_OP" :> <<"REFERENCE", "OBJECT", "UNRESOLVED">>)
  @@ ("ARBFIELD_OP" :> <<"REFERENCE", "OBJECT", "OBJECT", "UNRESOLVED">>)
  @@ ("OPREGION" :> <<"UNRESOLVED", "IMMEDIATE", "OBJECT", "OBJECT">>)

(***************************************************************************)
(* lai_mode_flags: does a parse mode push a result, resolve names, accept  *)
(* names without a node, and invoke methods?                               *)
(***************************************************************************)
WantsResult(mode) == mode # "EXEC"
Resolves(mode) == mode \in {"EXEC", "OBJECT", "REFERENCE", "OPTIONAL_REFERENCE"}
Nullable(mode) == mode = "OPTIONAL_REFERENCE"
Invokes(mode) == mode \in {"EXEC", "OBJECT"}

-----------------------------------------------------------------------------
(* The tops of the stacks and the token at the program counter.            *)
running == status \in {"populate", "method"}
item == Last(stack)
ctx == Last(ctxstack)
blk == Last(blkstack)
tok == table[blk.pc]
k == Len(opstack) - item.frame          \* operands the item has so far
operand(i) == opstack[item.frame + i]
val(i) == operand(i).v.v                \* lai_exec_get_integer
Popped(n) == SubSeq(opstack, 1, Len(opstack) - n)

PkgKinds == {"PACKAGE", "VARPACKAGE"}

(***************************************************************************)
(* The mode lai_exec_process hands to lai_exec_parse for the next operand  *)
(* or statement of the top item; "none" when the item is to be reduced.    *)
(***************************************************************************)
ParseMode ==
  CASE item.kind \in {"POPULATE", "METHOD"} -> IF blk.pc < blk.limit THEN "EXEC" ELSE "none"
    [] item.kind \in {"LOOP", "COND"} ->
         IF item.state = 0 THEN (IF k = 0 THEN "OBJECT" ELSE "none")
         ELSE IF blk.pc < blk.limit THEN "EXEC" ELSE "none"
    [] item.kind \in {"BUFFER", "RETURN"} -> IF k = 0 THEN "OBJECT" ELSE "none"
    [] item.kind = "INVOKE" -> IF k <= item.argc THEN "OBJECT" ELSE "none"
    [] item.kind = "BANKFIELD" -> IF k < 3 THEN "OBJECT" ELSE "none"
    [] item.kind \in PkgKinds ->
         IF item.phase = 0 THEN (IF item.kind = "PACKAGE" THEN "IMMEDIATE" ELSE "OBJECT")
         ELSE IF item.phase = 2 /\ k = 1 /\ blk.pc < blk.limit THEN "DATA" ELSE "none"
    [] item.kind = "NODE" -> IF k < Len(NodeModes[item.opcode]) THEN NodeModes[item.opcode][k + 1] ELSE "none"
    [] item.kind = "OP" -> IF k < Len(OpModes[item.opcode]) THEN OpModes[item.opcode][k + 1] ELSE "none"

Parsing(mode) == running /\ stack # <<>> /\ ParseMode = mode
Reducing(kind) == running /\ stack # <<>> /\ item.kind = kind /\ ParseMode = "none"

-----------------------------------------------------------------------------
(***************************************************************************)
(* Capacities.  A reserve function grows a stack that is full; if there is *)
(* no memory the interpreter returns LAI_ERROR_OUT_OF_MEMORY.              *)
(***************************************************************************)
Depth == [s \in Stacks |-> CASE s = "ctx" -> Len(ctxstack) [] s = "blk" -> Len(blkstack)
                             [] s = "stk" -> Len(stack) [] s = "op" -> Len(opstack)]
Full(s) == Depth[s] = capacity[s]

(* Mutant: a full stack is taken for one with a free slot.                 *)
ReserveLate(S) == capacity' = [s \in Stacks |-> IF s \in S /\ Depth[s] > capacity[s] THEN 2 * capacity[s] ELSE capacity[s]]
Reserve(S) == capacity' = [s \in Stacks |-> IF s \in S /\ Full(s) THEN 2 * capacity[s] ELSE capacity[s]]

LoopOps == {"WHILE_OP", "IF_OP", "BUFFER_OP"}
PackageOps == {"PACKAGE_OP", "VARPACKAGE_OP"}
DeviceOps == {"DEVICE", "PROCESSOR", "POWER_RES", "THERMALZONE"}
LeafOps == {"MUTEX", "EVENT", "METHOD_OP", "ALIAS_OP", "FIELD", "INDEXFIELD", "EXTERNAL_OP", "NOP_OP",
            "CONTINUE_OP", "BREAK_OP"}

ParseReserves ==
  IF ParseMode = "IMMEDIATE" THEN {"op"}
  ELSE CASE tok.op = "NAME" -> {"op", "stk"}
         [] tok.op \in {"ZERO_OP", "CONST", "ARG", "LOCAL", "DEBUG_OP"} -> {"op"}
         [] tok.op \in LoopOps -> {"blk", "stk"}
         [] tok.op \in PackageOps \cup {"BANKFIELD"} -> {"op", "blk", "stk"}
         [] tok.op \in DeviceOps \cup {"SCOPE_OP"} -> {"ctx", "blk", "stk"}
         [] tok.op \in LeafOps -> {}
         [] OTHER -> {"stk"}

Reserves ==
  IF ParseMode # "none" THEN ParseReserves
  ELSE CASE item.kind \in {"METHOD", "OP"} -> {"op"}
         [] item.kind = "INVOKE" -> {"ctx", "blk"}
         [] OTHER -> {}

(***************************************************************************)
(* An error ends lai_exec_run.  lai_eval_args and lai_create_namespace     *)
(* then finalize the state, which drops the stacks and frees the           *)
(* invocations.                                                            *)
(***************************************************************************)
Fail(error) ==
  /\ status' = "idle"
  /\ ctxstack' = <<>> /\ blkstack' = <<>> /\ stack' = <<>> /\ opstack' = <<>>
  /\ capacity' = SmallSizes
  /\ calls' = IF status = "method" THEN [calls EXCEPT ![Len(calls)].error = error] ELSE calls
  /\ UNCHANGED table

OutOfMemory ==
  /\ running /\ stack # <<>>
  /\ \E s \in Reserves : Full(s)
  /\ Fail("OUT_OF_MEMORY")
  /\ UNCHANGED <<ns, made>>

-----------------------------------------------------------------------------
(***************************************************************************)
(* Steps that only move the program counter and push on the stacks.        *)
(***************************************************************************)
Commit(pc) == [blkstack EXCEPT ![Len(blkstack)].pc = pc]

(***************************************************************************)
(* lai_exec_process increments pkg_phase of a package item after parsing   *)
(* its size, through the pointer it took before: if the execution stack    *)
(* moved meanwhile, the increment is lost with the old memory.             *)
(***************************************************************************)
Bumped(items) ==
  IF item.kind \in PkgKinds /\ item.phase = 0 /\ ~("stk" \in ParseReserves /\ Full("stk"))
  THEN [items EXCEPT ![Len(stack)].phase = 1]
  ELSE items

(* A parse step: new program counter, blocks, items and operands to push.   *)
Push(pc, blks, items, operands) ==
  /\ Reserve(ParseReserves)
  /\ blkstack' = Commit(pc) \o blks
  /\ stack' = Bumped(stack \o items)
  /\ opstack' = opstack \o operands
  /\ UNCHANGED <<table, status, calls>>

PushOnly(pc, blks, items, operands) ==
  /\ Push(pc, blks, items, operands)
  /\ UNCHANGED <<ctxstack, ns, made>>

Result(mode, v) == IF WantsResult(mode) THEN <<Object(v)>> ELSE <<>>

ParseImmediate ==
  /\ Parsing("IMMEDIATE")
  /\ PushOnly(blk.pc + 1, <<>>, <<>>, <<Object(Integer(tok.v))>>)

Statement(ops) == running /\ stack # <<>> /\ ParseMode \notin {"none", "IMMEDIATE"} /\ tok.op \in ops

(***************************************************************************)
(* Names: left unresolved, resolved to a node, loaded, or invoked.         *)
(***************************************************************************)
target == Resolve(ns, ctx.handle, tok.v)

ParseUnresolvedName ==
  /\ Statement({"NAME"})
  /\ ~Resolves(ParseMode)
  /\ PushOnly(blk.pc + 1, <<>>, <<>>,
       <<IF ParseMode = "DATA" THEN Object([type |-> "LAZY_HANDLE", v |-> tok.v])
         ELSE [tag |-> "UNRESOLVED_NAME", v |-> tok.v]>>)

ParseReference ==
  /\ Statement({"NAME"})
  /\ Resolves(ParseMode) /\ ~Invokes(ParseMode)
  /\ target # Null \/ Nullable(ParseMode)
  /\ PushOnly(blk.pc + 1, <<>>, <<>>, <<[tag |-> "RESOLVED_NAME", v |-> target]>>)

ParseUndefined ==
  /\ Statement({"NAME"})
  /\ Resolves(ParseMode) /\ target = Null /\ ~Nullable(ParseMode)
  /\ Fail("UNEXPECTED_RESULT")
  /\ UNCHANGED <<ns, made>>

(* lai_exec_access: what loading a node may give; a field is read from the  *)
(* hardware or from a buffer.                                               *)
FieldTypes == {"FIELD", "INDEXFIELD", "BANKFIELD", "BUFFER_FIELD"}
Access(n) ==
  CASE ns[n].type = "NAME" -> {ns[n].val}
    [] ns[n].type \in FieldTypes -> {Integer(0), Integer(1)}
    [] OTHER -> {[type |-> "HANDLE", v |-> n]}

ParseAccess ==
  /\ Statement({"NAME"})
  /\ Invokes(ParseMode) /\ target # Null
  /\ ns[target].type # "METHOD"
  /\ \E v \in Access(target) : PushOnly(blk.pc + 1, <<>>, <<>>, Result(ParseMode, v))

ParseInvoke ==
  /\ Statement({"NAME"})
  /\ Invokes(ParseMode) /\ target # Null
  /\ ns[target].type = "METHOD"
  /\ PushOnly(blk.pc + 1, <<>>,
       <<[kind |-> "INVOKE", frame |-> Len(opstack), argc |-> ns[target].val.argc, want |-> WantsResult(ParseMode)]>>,
       <<[tag |-> "RESOLVED_NAME", v |-> target]>>)

(***************************************************************************)
(* Constants.  Zero is the null target where a reference is expected;      *)
(* in execution mode constants have no effect.                             *)
(***************************************************************************)
ParseConstant ==
  /\ Statement({"ZERO_OP", "CONST"})
  /\ PushOnly(blk.pc + 1, <<>>, <<>>,
       CASE ParseMode \in {"DATA", "OBJECT"} -> <<Object(IF tok.op = "ZERO_OP" THEN Integer(0) ELSE tok.v)>>
         [] ParseMode \in {"REFERENCE", "OPTIONAL_REFERENCE"} -> <<NullName>>
         [] ParseMode = "EXEC" -> <<>>)

(* Arguments and locals, as names or as values; the debug object.          *)
ParseVariable ==
  /\ Statement({"ARG", "LOCAL", "DEBUG_OP"})
  /\ PushOnly(blk.pc + 1, <<>>, <<>>,
       CASE tok.op = "DEBUG_OP" -> <<[tag |-> "DEBUG_NAME"]>>
         [] ParseMode \in {"REFERENCE", "OPTIONAL_REFERENCE"} -> <<[tag |-> tok.op, v |-> tok.v]>>
         [] OTHER -> <<Object(ctx.var[tok.op][tok.v])>>)

ParseNop ==
  /\ Statement({"NOP_OP", "EXTERNAL_OP"})
  /\ PushOnly(blk.pc + 1, <<>>, <<>>, <<>>)

-----------------------------------------------------------------------------
(***************************************************************************)
(* Opcodes that open a block: the parent's program counter moves behind    *)
(* the package at once, the new block covers its content.                  *)
(***************************************************************************)
Content == [pc |-> blk.pc + 1, limit |-> tok.end]

ParseBuffer ==
  /\ Statement({"BUFFER_OP"})
  /\ PushOnly(tok.end, <<Content>>,
       <<[kind |-> "BUFFER", frame |-> Len(opstack), want |-> WantsResult(ParseMode)]>>, <<>>)

ParsePackage ==
  /\ Statement(PackageOps)
  /\ PushOnly(tok.end, <<Content>>,
       <<[kind |-> IF tok.op = "PACKAGE_OP" THEN "PACKAGE" ELSE "VARPACKAGE", frame |-> Len(opstack),
          index |-> 0, phase |-> 0, want |-> WantsResult(ParseMode)]>>, <<Object(Uninit)>>)

ParseReturn ==
  /\ Statement({"RETURN_OP"})
  /\ PushOnly(blk.pc + 1, <<>>, <<[kind |-> "RETURN", frame |-> Len(opstack)]>>, <<>>)

ParseWhile ==
  /\ Statement({"WHILE_OP"})
  /\ PushOnly(tok.end, <<Content>>,
       <<[kind |-> "LOOP", frame |-> Len(opstack), state |-> 0, pred |-> blk.pc + 1]>>, <<>>)

ParseIf ==
  /\ Statement({"IF_OP"})
  /\ LET hasElse == tok.end < blk.limit /\ table[tok.end].op = "ELSE_OP"
          behind == IF hasElse THEN table[tok.end].end ELSE tok.end
      IN  PushOnly(behind, <<Content>>,
            <<[kind |-> "COND", frame |-> Len(opstack), state |-> 0,
               else |-> IF hasElse THEN [pc |-> tok.end + 1, limit |-> behind] ELSE Content,
               hasElse |-> hasElse]>>, <<>>)

(***************************************************************************)
(* Continue and Break look for the innermost loop through conditions only. *)
(* Continue drops the conditions and computes the position of the          *)
(* predicate but never commits it; Break also drops the loop.              *)
(***************************************************************************)
LoopAt == Max({i \in DOMAIN stack : stack[i].kind = "LOOP"})
Unwind(n) ==
  /\ stack' = SubSeq(stack, 1, n)
  /\ blkstack' = SubSeq(blkstack, 1, Len(blkstack) - (Len(stack) - n))
  /\ UNCHANGED <<table, status, ctxstack, opstack, capacity, ns, calls, made>>

Continue == Statement({"CONTINUE_OP"}) /\ Unwind(LoopAt)
Break == Statement({"BREAK_OP"}) /\ Unwind(LoopAt - 1)

(***************************************************************************)
(* Operators and namespace leaves wait for their operands.                 *)
(***************************************************************************)
ParseOperator ==
  /\ Statement(DOMAIN OpModes)
  /\ PushOnly(blk.pc + 1, <<>>,
       <<[kind |-> "OP", frame |-> Len(opstack), opcode |-> tok.op, want |-> WantsResult(ParseMode)]>>, <<>>)

ParseNode ==
  /\ Statement(DOMAIN NodeModes)
  /\ PushOnly(blk.pc + 1, <<>>, <<[kind |-> "NODE", frame |-> Len(opstack), opcode |-> tok.op]>>, <<>>)

-----------------------------------------------------------------------------
(***************************************************************************)
(* Nodes.  Install adds nodes for the given names one after the other and  *)
(* stops at the first that is a duplicate; the ones before it stay.  A     *)
(* node that an invocation creates is on its per_method_list.              *)
(***************************************************************************)
Install(names, type, value) ==
  FoldLeft(LAMBDA acc, name :
             IF ~acc.ok THEN acc
             ELSE LET node == NewNode(acc.ns, ctx.handle, name, type, value)
                      nodes == IF node.linked THEN acc.nodes \cup {Len(acc.ns) + 1} ELSE acc.nodes
                  IN  [ns |-> Append(acc.ns, node), nodes |-> nodes, ok |-> node.linked],
           [ns |-> ns, nodes |-> {}, ok |-> TRUE], names)

Created(new) ==
  /\ ns' = new.ns
  /\ made' = IF status = "method" THEN made \cup new.nodes ELSE made

(* Mutant: the node is not put on the list of the invocation.              *)
PerMethodNever(nodes) == ctxstack

PerMethod(nodes) ==
  IF ctx.invoked THEN [ctxstack EXCEPT ![Len(ctxstack)].nodes = @ \cup nodes] ELSE ctxstack

(* A leaf opcode: create the nodes, or fail on a duplicate.                *)
Leaf(names, type, value, pc) ==
  LET new == Install(names, type, value)
  IN  /\ Created(new)
      /\ IF new.ok THEN /\ ctxstack' = PerMethod(new.nodes)
                        /\ Push(pc, <<>>, <<>>, <<>>)
         ELSE Fail("UNEXPECTED_RESULT")

ParseMethod ==
  /\ Statement({"METHOD_OP"})
  /\ Leaf(<<tok.v.name>>, "METHOD",
          [pc |-> blk.pc + 1, limit |-> tok.end, argc |-> tok.v.argc, override |-> FALSE], tok.end)

ParseAlias ==
  /\ Statement({"ALIAS_OP"})
  /\ Resolve(ns, ctx.handle, tok.v.target) # Null
  /\ Leaf(<<tok.v.name>>, "ALIAS", Resolve(ns, ctx.handle, tok.v.target), blk.pc + 1)

ParseSync == Statement({"MUTEX", "EVENT"}) /\ Leaf(<<tok.v>>, tok.op, Null, blk.pc + 1)

(* The registers a field unit refers to must exist.                        *)
Registers == \A i \in DOMAIN tok.v.regs : Resolve(ns, ctx.handle, tok.v.regs[i]) # Null

ParseField ==
  /\ Statement({"FIELD", "INDEXFIELD"})
  /\ Registers
  /\ Leaf(tok.v.fields, tok.op, Null, blk.pc + 1)

ParseBankField ==
  /\ Statement({"BANKFIELD"})
  /\ Registers
  /\ PushOnly(tok.end, <<Content>>, <<[kind |-> "BANKFIELD", frame |-> Len(opstack)]>>,
       [i \in DOMAIN tok.v.regs |-> [tag |-> "RESOLVED_NAME", v |-> Resolve(ns, ctx.handle, tok.v.regs[i])]])

(***************************************************************************)
(* Scopes.  Their content runs in a context without an invocation, also    *)
(* when a method opens them.                                               *)
(***************************************************************************)
Enter(n, contexts) ==
  /\ ctxstack' = Append(contexts, ScopeCtx(n))
  /\ Push(tok.end, <<Content>>, <<[kind |-> "POPULATE", frame |-> Len(opstack)]>>, <<>>)

ParseScope ==
  /\ Statement({"SCOPE_OP"})
  /\ LET n == Resolve(ns, ctx.handle, tok.v)
     IN  IF n = Null THEN Fail("UNEXPECTED_RESULT") ELSE Enter(n, ctxstack)
  /\ UNCHANGED <<ns, made>>

ParseDevice ==
  /\ Statement(DeviceOps)
  /\ LET new == Install(<<tok.v>>, tok.op, Null)
     IN  /\ Created(new)
         /\ IF new.ok THEN Enter(Len(new.ns), PerMethod(new.nodes)) ELSE Fail("UNEXPECTED_RESULT")

-----------------------------------------------------------------------------
(***************************************************************************)
(* Items whose operands are complete are reduced.                          *)
(***************************************************************************)
Pop(n) == SubSeq(stack, 1, Len(stack) - n)
PopBlk(n) == SubSeq(blkstack, 1, Len(blkstack) - n)
Unlinked(nodes) == [n \in DOMAIN ns |-> IF n \in nodes THEN [ns[n] EXCEPT !.linked = FALSE] ELSE ns[n]]
Kept == UNCHANGED <<table, status, calls, made>>

PopulateEnd ==
  /\ Reducing("POPULATE")
  /\ stack' = Pop(1) /\ blkstack' = PopBlk(1) /\ ctxstack' = Front(ctxstack)
  /\ Kept /\ UNCHANGED <<opstack, capacity, ns>>

(* The implicit Return(0) at the end of a method.                          *)
MethodEnd ==
  /\ Reducing("METHOD")
  /\ opstack = <<>>
  /\ Reserve({"op"})
  /\ opstack' = IF item.want THEN <<Object(Integer(0))>> ELSE <<>>
  /\ ns' = Unlinked(ctx.nodes)
  /\ stack' = Pop(1) /\ blkstack' = PopBlk(1) /\ ctxstack' = Front(ctxstack)
  /\ Kept

BufferReduce ==
  /\ Reducing("BUFFER")
  /\ opstack' = Popped(1) \o (IF item.want THEN <<Object(Opaque("BUFFER"))>> ELSE <<>>)
  /\ stack' = Pop(1) /\ blkstack' = PopBlk(1)
  /\ Kept /\ UNCHANGED <<ctxstack, capacity, ns>>

(***************************************************************************)
(* A package: its size is known (phase 1), an initializer is there (phase  *)
(* 2), or no initializer is left.  The code stores an initializer and      *)
(* parses the next one in one call; here these are two steps.              *)
(***************************************************************************)
ReducingPackage(phase) == running /\ stack # <<>> /\ item.kind \in PkgKinds /\ item.phase = phase /\ ParseMode = "none"

PackageCreate ==
  /\ ReducingPackage(1)
  /\ opstack' = [Popped(1) EXCEPT ![item.frame + 1] =
                   Object([type |-> "PACKAGE", v |-> [i \in 1..val(2) |-> Uninit]])]
  /\ stack' = [stack EXCEPT ![Len(stack)].phase = 2]
  /\ Kept /\ UNCHANGED <<ctxstack, blkstack, capacity, ns>>

PackageStore ==
  /\ ReducingPackage(2)
  /\ k = 2
  /\ item.index < Len(val(1))
  /\ opstack' = [Popped(1) EXCEPT ![item.frame + 1].v.v[item.index + 1] = operand(2).v]
  /\ stack' = [stack EXCEPT ![Len(stack)].index = @ + 1]
  /\ Kept /\ UNCHANGED <<ctxstack, blkstack, capacity, ns>>

PackageEnd ==
  /\ ReducingPackage(2)
  /\ k = 1
  /\ opstack' = IF item.want THEN opstack ELSE Popped(1)
  /\ stack' = Pop(1) /\ blkstack' = PopBlk(1)
  /\ Kept /\ UNCHANGED <<ctxstack, capacity, ns>>

(***************************************************************************)
(* lai_exec_reduce_node.  Its error is dropped: after a duplicate the      *)
(* execution goes on.                                                      *)
(***************************************************************************)
NodeName(op) == CASE op \in {"NAME_OP", "OPREGION"} -> 1 [] op = "BYTEFIELD_OP" -> 3 [] op = "ARBFIELD_OP" -> 4
NodeType(op) == CASE op = "NAME_OP" -> "NAME" [] op = "OPREGION" -> "OPREGION" [] OTHER -> "BUFFER_FIELD"

NodeReduce ==
  /\ Reducing("NODE")
  /\ LET new == Install(<<operand(NodeName(item.opcode)).v>>, NodeType(item.opcode),
                        IF item.opcode = "NAME_OP" THEN operand(2).v ELSE Null)
     IN  Created(new) /\ ctxstack' = PerMethod(new.nodes)
  /\ opstack' = Popped(k)
  /\ stack' = Pop(1)
  /\ UNCHANGED <<table, status, calls, blkstack, capacity>>

-----------------------------------------------------------------------------
(***************************************************************************)
(* Stores.  Store() and the arithmetic operators convert to the type of a  *)
(* named object (lai_operand_mutate); CopyObject() and the conversions     *)
(* replace it (lai_operand_emplace).  An argument that holds a reference   *)
(* is followed.  Writes to hardware fields, to the debug object and to the *)
(* elements an Index() refers to are not visible in this model.            *)
(***************************************************************************)
Convert(type, v) ==
  IF type \notin {"INTEGER", "STRING", "BUFFER"} \/ v.type = type THEN v
  ELSE IF type = "INTEGER" THEN Integer(OpaqueInteger) ELSE Opaque(type)

StoreNs(m, n, v, mutate) ==
  IF m.ns[n].type # "NAME" THEN m
  ELSE [m EXCEPT !.ns[n].val = IF mutate THEN Convert(@.type, v) ELSE v]

Write(m, dest, v, mutate) ==
  LET Variable == m.ctxstack[Len(m.ctxstack)].var
  IN  CASE dest.tag \in {"NULL_NAME", "DEBUG_NAME", "OBJECT"} -> m
        [] dest.tag = "RESOLVED_NAME" -> StoreNs(m, dest.v, v, mutate)
        [] dest.tag = "ARG" /\ Variable["ARG"][dest.v].type = "NODE_REF" ->
             StoreNs(m, Variable["ARG"][dest.v].v, v, FALSE)
        [] OTHER -> [m EXCEPT !.ctxstack[Len(m.ctxstack)].var[dest.tag][dest.v] = v]

Loaded(i) ==
  IF operand(i).tag = "RESOLVED_NAME" THEN Access(operand(i).v) ELSE {ctx.var[operand(i).tag][operand(i).v]}

(***************************************************************************)
(* lai_exec_reduce_op: the possible outcomes of an operator, its result    *)
(* and what it writes to which operand.                                    *)
(***************************************************************************)
Emplacing == {"COPYOBJECT_OP", "CONCAT_OP", "CONCATRES_OP"} \cup DOMAIN BcdModes \cup (DOMAIN ConversionModes \ {"MID_OP"})
OpaqueOps == {"CONCAT_OP", "SIZEOF_OP"} \cup DOMAIN ConversionModes

OpaqueResult(op) ==
  CASE op = "TOINTEGER_OP" -> Convert("INTEGER", operand(1).v)
    [] op = "SIZEOF_OP" -> Integer(IF operand(1).v.type = "PACKAGE" THEN Len(val(1)) ELSE OpaqueInteger)
    [] op \in {"TODECIMALSTRING_OP", "TOHEXSTRING_OP", "TOSTRING_OP"} -> Opaque("STRING")
    [] op \in {"CONCAT_OP", "MID_OP"} /\ operand(1).v.type = "STRING" -> Opaque("STRING")
    [] OTHER -> Opaque("BUFFER")

Only(v) == {[res |-> v, to |-> <<>>]}
To(i, v) == {[res |-> v, to |-> <<[operand |-> i, v |-> v]>>]}

StoreOutcomes(op) == To(2, operand(1).v)

ArithmeticOutcomes(op) ==
  CASE op \in BinaryOps -> To(3, Integer(Binary(op, val(1), val(2))))
    [] op \in UnaryOps -> To(2, Integer(Unary(op, val(1))))
    [] op = "DIVIDE_OP" ->
         {[res |-> Uninit, to |-> <<[operand |-> 3, v |-> Integer(val(1) % val(2))],
                                    [operand |-> 4, v |-> Integer(val(1) \div val(2))]>>]}
    [] op = "INCREMENT_OP" -> UNION {To(1, Integer((x.v + 1) % Word)) : x \in Loaded(1)}
    [] op = "DECREMENT_OP" -> UNION {To(1, Integer((x.v - 1) % Word)) : x \in Loaded(1)}

LogicOutcomes(op) ==
  Only(Integer(IF op = "LNOT_OP" THEN Truth(val(1) = 0) ELSE Logical(op, val(1), val(2))))

DerefOutcomes == UNION {Only(v) : v \in Access(val(1))}
RefOfOutcomes == Only([type |-> "NODE_REF", v |-> operand(1).v])
CondRefOutcomes ==
  IF operand(1).v = Null THEN Only(Integer(0))
  ELSE {[res |-> Integer(1), to |-> <<[operand |-> 2, v |-> [type |-> "HANDLE", v |-> operand(1).v]]>>]}

(* Acquire and Wait may time out; Notify, Sleep and the others tell the host. *)
SyncOutcomes(op) == IF op \in {"ACQUIRE_OP", "WAIT_OP"} THEN Only(Integer(0)) \cup Only(Integer(1)) ELSE Only(Uninit)

Outcomes ==
  LET op == item.opcode
  IN  CASE op \in {"STORE_OP", "COPYOBJECT_OP"} -> StoreOutcomes(op)
        [] op \in BinaryOps \cup UnaryOps \cup DOMAIN ArithmeticModes -> ArithmeticOutcomes(op)
        [] op \in DOMAIN LogicModes -> LogicOutcomes(op)
        [] op = "REFOF_OP" -> RefOfOutcomes
        [] op = "DEREF_OP" -> DerefOutcomes
        [] op = "CONDREF_OP" -> CondRefOutcomes
        [] op = "SIZEOF_OP" -> Only(OpaqueResult(op))
        [] op \in OpaqueOps -> To(k, OpaqueResult(op))
        [] OTHER -> SyncOutcomes(op)

OpReduce ==
  /\ Reducing("OP")
  /\ item.opcode \in {"MOD_OP", "DIVIDE_OP"} => Defined(item.opcode, val(1), val(2))
  /\ Reserve({"op"})
  /\ \E out \in Outcomes :
       LET m == FoldLeft(LAMBDA acc, w : Write(acc, operand(w.operand), w.v, item.opcode \notin Emplacing),
                         [ns |-> ns, ctxstack |-> ctxstack], out.to)
       IN  /\ ns' = m.ns /\ ctxstack' = m.ctxstack
           /\ opstack' = Popped(k) \o (IF item.want THEN <<Object(out.res)>> ELSE <<>>)
  /\ stack' = Pop(1)
  /\ Kept /\ UNCHANGED blkstack

-----------------------------------------------------------------------------
(***************************************************************************)
(* Invocation of a method: the arguments move to the new invocation.  The  *)
(* host's methods (method_override) run at once.                           *)
(***************************************************************************)
callee == operand(1).v

Invoke ==
  /\ Reducing("INVOKE")
  /\ ~ns[callee].val.override
  /\ Reserve({"ctx", "blk"})
  /\ ctxstack' = Append(ctxstack, MethodCtx(callee, [i \in 1..item.argc |-> operand(i + 1).v]))
  /\ blkstack' = Append(blkstack, [pc |-> ns[callee].val.pc, limit |-> ns[callee].val.limit])
  /\ stack' = Append(Pop(1), [kind |-> "METHOD", frame |-> Len(opstack) - k, want |-> item.want])
  /\ opstack' = Popped(k)
  /\ Kept /\ UNCHANGED ns

(* lai_do_osi_method knows some strings; lai_do_os_method, lai_do_rev_method. *)
OverrideResults(name) ==
  CASE name = "_OSI" -> {Integer(0), Integer(2 ^ (Width \div 2) - 1)}
    [] name = "_OS_" -> {Opaque("STRING")}
    [] name = "_REV" -> {Integer(2)}

InvokeOverride ==
  /\ Reducing("INVOKE")
  /\ ns[callee].val.override
  /\ Reserve({"ctx", "blk"})
  /\ \E r \in OverrideResults(ns[callee].name) :
       opstack' = Popped(k) \o (IF item.want THEN <<Object(r)>> ELSE <<>>)
  /\ stack' = Pop(1)
  /\ Kept /\ UNCHANGED <<ctxstack, blkstack, ns>>

(***************************************************************************)
(* Return drops the conditions and loops around it and the method itself.  *)
(***************************************************************************)
MethodAt == Max({i \in DOMAIN stack : stack[i].kind = "METHOD"})
Skippable(n) == \A i \in (n + 1)..(Len(stack) - 1) : stack[i].kind \in {"COND", "LOOP"}

ReturnReduce ==
  /\ Reducing("RETURN")
  /\ opstack' = Popped(1) \o (IF stack[MethodAt].want THEN <<operand(1)>> ELSE <<>>)
  /\ ns' = Unlinked(ctx.nodes)
  /\ blkstack' = PopBlk(Len(stack) - MethodAt)
  /\ stack' = SubSeq(stack, 1, MethodAt - 1)
  /\ ctxstack' = Front(ctxstack)
  /\ Kept /\ UNCHANGED capacity

(***************************************************************************)
(* Loops and conditions: the predicate, the end of the body.               *)
(***************************************************************************)
Jump(block, it) ==
  /\ blkstack' = [blkstack EXCEPT ![Len(blkstack)] = block]
  /\ stack' = [stack EXCEPT ![Len(stack)] = it]

(* Mutant: a false predicate is evaluated again instead of leaving.        *)
LoopPredicateStuck ==
  /\ Reducing("LOOP") /\ item.state = 0
  /\ Jump(IF val(1) # 0 THEN blk ELSE [blk EXCEPT !.pc = item.pred], [item EXCEPT !.state = IF val(1) # 0 THEN 1 ELSE 0])
  /\ opstack' = Popped(1)
  /\ Kept /\ UNCHANGED <<ctxstack, capacity, ns>>

LoopPredicate ==
  /\ Reducing("LOOP") /\ item.state = 0
  /\ IF val(1) # 0 THEN Jump(blk, [item EXCEPT !.state = 1]) ELSE blkstack' = PopBlk(1) /\ stack' = Pop(1)
  /\ opstack' = Popped(1)
  /\ Kept /\ UNCHANGED <<ctxstack, capacity, ns>>

LoopAgain ==
  /\ Reducing("LOOP") /\ item.state = 1
  /\ Jump([blk EXCEPT !.pc = item.pred], [item EXCEPT !.state = 0])
  /\ Kept /\ UNCHANGED <<ctxstack, opstack, capacity, ns>>

(* Mutant: a false predicate skips the Else as well.                       *)
CondPredicateNoElse ==
  /\ Reducing("COND") /\ item.state = 0
  /\ IF val(1) # 0 THEN Jump(blk, [item EXCEPT !.state = 1])
     ELSE blkstack' = PopBlk(1) /\ stack' = Pop(1)
  /\ opstack' = Popped(1)
  /\ Kept /\ UNCHANGED <<ctxstack, capacity, ns>>

CondPredicate ==
  /\ Reducing("COND") /\ item.state = 0
  /\ IF val(1) # 0 THEN Jump(blk, [item EXCEPT !.state = 1])
     ELSE IF item.hasElse THEN Jump(item.else, [item EXCEPT !.state = 1])
     ELSE blkstack' = PopBlk(1) /\ stack' = Pop(1)
  /\ opstack' = Popped(1)
  /\ Kept /\ UNCHANGED <<ctxstack, capacity, ns>>

CondEnd ==
  /\ Reducing("COND") /\ item.state = 1
  /\ blkstack' = PopBlk(1) /\ stack' = Pop(1)
  /\ Kept /\ UNCHANGED <<ctxstack, opstack, capacity, ns>>

(* The field list follows the bank value in the block.                     *)
BankFieldReduce ==
  /\ Reducing("BANKFIELD")
  /\ LET new == Install(tok.v, "BANKFIELD", Null)
     IN  /\ Created(new)
         /\ IF new.ok
            THEN /\ ctxstack' = PerMethod(new.nodes)
                 /\ blkstack' = PopBlk(1) /\ stack' = Pop(1) /\ opstack' = Popped(3)
                 /\ UNCHANGED <<table, status, calls, capacity>>
            ELSE Fail("UNEXPECTED_RESULT")

-----------------------------------------------------------------------------
(***************************************************************************)
(* The host: lai_create_namespace runs the definition block once and       *)
(* ignores its error; lai_eval_args then evaluates names and methods.      *)
(***************************************************************************)
Begin(newStatus, n, block, it, args) ==
  /\ status' = newStatus
  /\ ctxstack' = <<IF it.kind = "METHOD" THEN MethodCtx(n, args) ELSE ScopeCtx(n)>>
  /\ blkstack' = <<block>>
  /\ stack' = <<it>>
  /\ UNCHANGED <<table, opstack, capacity, ns, made>>

Populate ==
  /\ status = "new"
  /\ Begin("populate", Root, [pc |-> 1, limit |-> Len(table) + 1], [kind |-> "POPULATE", frame |-> 0], <<>>)
  /\ UNCHANGED calls

Call(m, x, error, result) == Append(calls, [m |-> m, x |-> x, error |-> error, result |-> result])

EvalMethod(m, x) ==
  /\ status = "idle" /\ Len(calls) < MaxCalls
  /\ LET n == Resolve(ns, Root, m)
     IN  /\ n # Null
         /\ ns[n].type = "METHOD" /\ ~ns[n].val.override
         /\ Begin("method", n, [pc |-> ns[n].val.pc, limit |-> ns[n].val.limit],
                   [kind |-> "METHOD", frame |-> 0, want |-> TRUE], <<Integer(x)>>)
  /\ calls' = Call(m, x, "RUNNING", Uninit)

EvalName(m) ==
  /\ status = "idle" /\ Len(calls) < MaxCalls
  /\ LET n == Resolve(ns, Root, m)
     IN  /\ n # Null
         /\ ns[n].type = "NAME"
         /\ calls' = Call(m, 0, "NONE", ns[n].val)
  /\ UNCHANGED <<table, status, ctxstack, blkstack, stack, opstack, capacity, ns, made>>

RunEnds ==
  /\ running /\ stack = <<>>
  /\ status = "method" => Len(opstack) = 1
  /\ status' = "idle"
  /\ calls' = IF status = "method" THEN [calls EXCEPT ![Len(calls)].error = "NONE", ![Len(calls)].result = opstack[1].v]
              ELSE calls
  /\ opstack' = <<>>
  /\ capacity' = SmallSizes
  /\ UNCHANGED <<table, ctxstack, blkstack, stack, ns, made>>

(* The nodes lai_create_root installs.                                     *)
PredefinedNode(name, type, value) ==
  [name |-> name, parent |-> Root, type |-> type, val |-> value, linked |-> TRUE]
HostMethod(argc) == [pc |-> 0, limit |-> 0, argc |-> argc, override |-> TRUE]
Predefined ==
  <<RootNode>>
  \o [i \in 1..5 |-> PredefinedNode(<<"_SB_", "_SI_", "_GPE", "_PR_", "_TZ_">>[i], "DEVICE", Null)]
  \o <<PredefinedNode("_OSI", "METHOD", HostMethod(1)), PredefinedNode("_OS_", "METHOD", HostMethod(0)),
       PredefinedNode("_REV", "METHOD", HostMethod(0))>>

Init ==
  /\ table \in Tables
  /\ status = "new"
  /\ ctxstack = <<>> /\ blkstack = <<>> /\ stack = <<>> /\ opstack = <<>>
  /\ capacity = SmallSizes
  /\ ns = Predefined
  /\ calls = <<>>
  /\ made = {}

Parse == \/ ParseImmediate \/ ParseUnresolvedName \/ ParseReference \/ ParseUndefined \/ ParseAccess \/ ParseInvoke
         \/ ParseConstant \/ ParseVariable \/ ParseNop \/ ParseBuffer \/ ParsePackage \/ ParseReturn \/ ParseWhile
         \/ ParseIf \/ Continue \/ Break \/ ParseOperator \/ ParseNode \/ ParseMethod \/ ParseAlias \/ ParseSync
         \/ ParseField \/ ParseBankField \/ ParseScope \/ ParseDevice

Reduce == \/ PopulateEnd \/ MethodEnd \/ BufferReduce \/ PackageCreate \/ PackageStore \/ PackageEnd \/ NodeReduce
          \/ OpReduce \/ Invoke \/ InvokeOverride \/ ReturnReduce \/ LoopPredicate \/ LoopAgain
          \/ CondPredicate \/ CondEnd \/ BankFieldReduce

Run == Parse \/ Reduce \/ OutOfMemory \/ RunEnds

Host == Populate \/ (\E m \in Methods : EvalName(m) \/ \E x \in Inputs : EvalMethod(m, x))

(* The host may call no more; a running interpreter must make a step.      *)
Done == status = "idle" /\ UNCHANGED vars

Next == Run \/ Host \/ Done

(***************************************************************************)
(* lai_exec_run is a loop: as long as there is an item it makes a step.    *)
(* This is WF_vars(Run); that Run is enabled in every running state is     *)
(* what TLC's check for deadlocks shows.                                   *)
(***************************************************************************)
Fairness == []<>~running \/ []<><<Run>>_vars

Spec == Init /\ [][Next]_vars /\ Fairness

-----------------------------------------------------------------------------
CtxKinds == {"POPULATE", "METHOD"}
BlkKinds == CtxKinds \cup PkgKinds \cup {"BUFFER", "LOOP", "COND", "BANKFIELD"}
Kinds == BlkKinds \cup {"OP", "NODE", "INVOKE", "RETURN"}

(* The variables have their types; the stacks are empty between runs.      *)
TypeOK ==
  /\ status \in {"new", "populate", "method", "idle"}
  /\ \A i \in DOMAIN ctxstack : ctxstack[i].handle \in DOMAIN ns /\ ctxstack[i].nodes \subseteq DOMAIN ns
  /\ \A i \in DOMAIN blkstack : blkstack[i].pc \in 1..(Len(table) + 1) /\ blkstack[i].limit \in 1..(Len(table) + 1)
  /\ \A i \in DOMAIN stack : stack[i].kind \in Kinds /\ stack[i].frame \in Nat
  /\ \A i \in DOMAIN opstack : opstack[i].tag \in
       {"OBJECT", "NULL_NAME", "DEBUG_NAME", "RESOLVED_NAME", "UNRESOLVED_NAME", "ARG", "LOCAL"}
  /\ \A n \in DOMAIN ns : ns[n].parent \in 0..(n - 1)
  /\ made \subseteq DOMAIN ns
  /\ ~running => ctxstack = <<>> /\ blkstack = <<>> /\ stack = <<>> /\ opstack = <<>>

(***************************************************************************)
(* The four stacks stay in step (the interpreter pops them one by one):    *)
(* the contexts belong to the scopes and methods on the execution stack,   *)
(* the blocks to the items that run code of their own.                     *)
(***************************************************************************)
Count(S) == Cardinality({i \in DOMAIN stack : stack[i].kind \in S})
StacksInStep == Len(ctxstack) = Count(CtxKinds) /\ Len(blkstack) = Count(BlkKinds)

(***************************************************************************)
(* No item ever has more operands than it takes, below the top of the      *)
(* stack too: the LAI_ENSURE(k <= ...) of lai_exec_process, and the end of *)
(* the argument modes, which are not checked in the code.                  *)
(***************************************************************************)
Takes(it) ==
  CASE it.kind \in {"POPULATE", "METHOD"} -> 0
    [] it.kind \in {"BUFFER", "LOOP", "COND", "RETURN"} -> 1
    [] it.kind \in PkgKinds -> 2
    [] it.kind = "BANKFIELD" -> 3
    [] it.kind = "INVOKE" -> it.argc + 1
    [] it.kind = "OP" -> Len(OpModes[it.opcode])
    [] it.kind = "NODE" -> Len(NodeModes[it.opcode])
OperandsFit ==
  \A i \in DOMAIN stack :
    LET upper == IF i < Len(stack) THEN stack[i + 1].frame ELSE Len(opstack)
    IN  upper - stack[i].frame \in 0..Takes(stack[i])

(***************************************************************************)
(* No stack outgrows its memory: each push was preceded by a reserve.      *)
(***************************************************************************)
WithinCapacity == \A s \in Stacks : Depth[s] <= capacity[s]

(***************************************************************************)
(* The states in which lai_exec_process or lai_exec_parse panics: code     *)
(* that runs past its block, a method that ends with operands of another   *)
(* on the operand stack, a package with too many elements, Return, Break   *)
(* and Continue through items they cannot skip, missing registers, a       *)
(* division by zero (a processor trap), no single result of a method.      *)
(***************************************************************************)
Panics ==
  /\ running
  /\ IF stack = <<>> THEN status = "method" /\ Len(opstack) # 1
     ELSE \/ blk.pc > blk.limit
          \/ ParseMode # "none" /\ blk.pc = blk.limit
          \/ Reducing("METHOD") /\ opstack # <<>>
          \/ ReducingPackage(2) /\ k = 2 /\ item.index >= Len(val(1))
          \/ Reducing("RETURN") /\ ~Skippable(MethodAt)
          \/ /\ blk.pc < blk.limit /\ Statement({"CONTINUE_OP", "BREAK_OP"})
             /\ ~\E i \in DOMAIN stack : stack[i].kind = "LOOP" /\ \A j \in (i + 1)..Len(stack) : stack[j].kind = "COND"
          \/ blk.pc < blk.limit /\ Statement({"FIELD", "INDEXFIELD", "BANKFIELD"}) /\ ~Registers
          \/ Reducing("OP") /\ item.opcode \in {"MOD_OP", "DIVIDE_OP"} /\ ~Defined(item.opcode, val(1), val(2))
NoPanic == ~Panics

(***************************************************************************)
(* When methods have returned, no node they created is left in the         *)
(* namespace (per_method_list).                                            *)
(***************************************************************************)
AllReturned == status = "idle" /\ \A i \in DOMAIN calls : calls[i].error = "NONE"
NamespaceRestored == AllReturned => \A n \in made : ~ns[n].linked

(***************************************************************************)
(* A look-up has one answer: the hash table of a node never holds two      *)
(* children of one name.                                                   *)
(***************************************************************************)
NamesUnique ==
  \A m, n \in DOMAIN ns :
    (m # n /\ ns[m].linked /\ ns[n].linked) => <<ns[m].parent, ns[m].name>> # <<ns[n].parent, ns[n].name>>

(***************************************************************************)
(* lai_do_resolve follows one alias and then requires that the target is   *)
(* none: an alias of an alias must refer to the final node.                *)
(***************************************************************************)
AliasesDirect == \A n \in DOMAIN ns : ns[n].type = "ALIAS" => ns[ns[n].val].type # "ALIAS"

(* Every run of the interpreter comes to an end.                           *)
Terminates == running ~> ~running

(* The interpreter keeps its stacks: whatever byte code runs, the four     *)
(* stacks are in step and inside their memory, no item has operands of     *)
(* another, and no assertion of lai_exec_process fails.                    *)
StacksSound == TypeOK /\ StacksInStep /\ OperandsFit /\ WithinCapacity /\ NoPanic

(* The namespace stays a tree in which a look-up has one answer: what      *)
(* methods create is gone when they return, no two siblings have one name, *)
(* no alias leads to an alias.                                             *)
NamespaceSound == NamespaceRestored /\ NamesUnique /\ AliasesDirect
=============================================================================
