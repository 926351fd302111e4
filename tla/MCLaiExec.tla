---------------------------- MODULE MCLaiExec ----------------------------
(***************************************************************************)
(* Programs for the AML interpreter, with a reference for their meaning:   *)
(* methods of a small structured language, a compiler to the tokens of     *)
(* LaiExec, and a direct evaluator.  TLC compares the two for every        *)
(* program, input and pattern of failing allocations.                      *)
(***************************************************************************)
EXTENDS LaiExec

(* Byte code is assembled from opcodes and packages.                       *)
T(op) == [op |-> op, v |-> 0]
V(op, v) == [op |-> op, v |-> v]
Pkg(op, v, body) == [op |-> op, v |-> v, body |-> body]
Seg(s) == [abs |-> FALSE, height |-> 0, segs |-> <<s>>]
Abs(s) == [abs |-> TRUE, height |-> 0, segs |-> <<s>>]
Num(n) == IF n = 0 THEN T("ZERO_OP") ELSE V("CONST", Integer(n))
NameTok(s) == V("NAME", Seg(s))

RECURSIVE Assemble(_, _)
Assemble(code, at) ==
  IF code = <<>> THEN <<>>
  ELSE LET c == code[1]
           body == IF "body" \in DOMAIN c THEN Assemble(c.body, at + 1) ELSE <<>>
       IN  <<[op |-> c.op, v |-> c.v, end |-> at + 1 + Len(body)]>> \o body
           \o Assemble(Tail(code), at + 1 + Len(body))

(* Expressions and statements.                                             *)
C(n) == [k |-> "const", n |-> n]
A == [k |-> "var", var |-> "ARG", i |-> 0]
L(i) == [k |-> "var", var |-> "LOCAL", i |-> i]
G(s) == [k |-> "global", name |-> s]
Bin(op, a, b) == [k |-> "bin", op |-> op, a |-> a, b |-> b]
Log(op, a, b) == [k |-> "log", op |-> op, a |-> a, b |-> b]
CallE(m, a) == [k |-> "call", m |-> m, a |-> a]
Set(to, e) == [k |-> "set", to |-> to, e |-> e]
Incr(to) == [k |-> "inc", to |-> to]
Do(e) == [k |-> "do", e |-> e]
Ret(e) == [k |-> "ret", e |-> e]
If(c, t, f) == [k |-> "if", c |-> c, t |-> t, f |-> f]
While(c, b) == [k |-> "while", c |-> c, b |-> b]
Brk == [k |-> "brk"]
Cont == [k |-> "cont"]

-----------------------------------------------------------------------------
(* The compiler.                                                           *)
RECURSIVE CompileE(_)
CompileE(e) ==
  CASE e.k = "const" -> <<Num(e.n)>>
    [] e.k = "var" -> <<V(e.var, e.i)>>
    [] e.k = "global" -> <<NameTok(e.name)>>
    [] e.k = "bin" -> <<T(e.op)>> \o CompileE(e.a) \o CompileE(e.b) \o <<T("ZERO_OP")>>
    [] e.k = "log" -> <<T(e.op)>> \o CompileE(e.a) \o CompileE(e.b)
    [] e.k = "call" -> <<NameTok(e.m)>> \o CompileE(e.a)

RECURSIVE CompileB(_)
CompileS(s) ==
  CASE s.k = "set" -> <<T("STORE_OP")>> \o CompileE(s.e) \o CompileE(s.to)
    [] s.k = "inc" -> <<T("INCREMENT_OP")>> \o CompileE(s.to)
    [] s.k = "do" -> CompileE(s.e)
    [] s.k = "ret" -> <<T("RETURN_OP")>> \o CompileE(s.e)
    [] s.k = "brk" -> <<T("BREAK_OP")>>
    [] s.k = "cont" -> <<T("CONTINUE_OP")>>
    [] s.k = "while" -> <<Pkg("WHILE_OP", 0, CompileE(s.c) \o CompileB(s.b))>>
    [] s.k = "if" -> <<Pkg("IF_OP", 0, CompileE(s.c) \o CompileB(s.t))>>
                     \o (IF s.f = <<>> THEN <<>> ELSE <<Pkg("ELSE_OP", 0, CompileB(s.f))>>)
CompileB(b) == IF b = <<>> THEN <<>> ELSE CompileS(b[1]) \o CompileB(Tail(b))

MethodCode(m, argc, code) == Pkg("METHOD_OP", [name |-> Seg(m), argc |-> argc], code)

(* A definition block: the name CNT, a helper HLP and the method MAIN.  It *)
(* begins with an External(), which the interpreter skips and which tells  *)
(* the properties the program.                                             *)
Compile(p) ==
  Assemble(<<V("EXTERNAL_OP", p), T("NAME_OP"), NameTok("CNT"), Num(0),
             MethodCode("HLP", 1, CompileB(p.helper)), MethodCode("MAIN", 1, CompileB(p.main))>>, 1)

-----------------------------------------------------------------------------
(* The reference: big steps over an environment of the argument, the       *)
(* locals and the name CNT.  An outcome is how a block was left.           *)
RECURSIVE EvalE(_, _, _)
RECURSIVE ExecB(_, _, _)
Enter0(helper, x, cnt) == ExecB(helper, helper, [ARG |-> <<x>>, loc |-> <<0, 0>>, cnt |-> cnt, out |-> "next", val |-> 0])
EvalE(h, e, env) ==
  CASE e.k = "const" -> [v |-> e.n, cnt |-> env.cnt]
    [] e.k = "var" -> [v |-> IF e.var = "ARG" THEN env.ARG[1] ELSE env.loc[e.i + 1], cnt |-> env.cnt]
    [] e.k = "global" -> [v |-> env.cnt, cnt |-> env.cnt]
    [] e.k \in {"bin", "log"} ->
         LET a == EvalE(h, e.a, env)
             b == EvalE(h, e.b, [env EXCEPT !.cnt = a.cnt])
         IN  [v |-> IF e.k = "bin" THEN Binary(e.op, a.v, b.v) ELSE Logical(e.op, a.v, b.v), cnt |-> b.cnt]
    [] e.k = "call" ->
         LET a == EvalE(h, e.a, env)
             r == Enter0(h, a.v, a.cnt)
         IN  [v |-> IF r.out = "ret" THEN r.val ELSE 0, cnt |-> r.cnt]

Assign(env, to, v) ==
  CASE to.k = "global" -> [env EXCEPT !.cnt = v]
    [] to.var = "ARG" -> [env EXCEPT !.ARG[1] = v]
    [] OTHER -> [env EXCEPT !.loc[to.i + 1] = v]

RECURSIVE Loop(_, _, _)
ExecS(h, s, env) ==
  CASE s.k = "set" -> LET r == EvalE(h, s.e, env) IN Assign([env EXCEPT !.cnt = r.cnt], s.to, r.v)
    [] s.k = "inc" -> Assign(env, s.to, (EvalE(h, s.to, env).v + 1) % Word)
    [] s.k = "do" -> [env EXCEPT !.cnt = EvalE(h, s.e, env).cnt]
    [] s.k = "ret" -> LET r == EvalE(h, s.e, env) IN [env EXCEPT !.cnt = r.cnt, !.out = "ret", !.val = r.v]
    [] s.k \in {"brk", "cont"} -> [env EXCEPT !.out = s.k]
    [] s.k = "if" -> LET r == EvalE(h, s.c, env)
                     IN  ExecB(h, IF r.v # 0 THEN s.t ELSE s.f, [env EXCEPT !.cnt = r.cnt])
    [] s.k = "while" -> Loop(h, s, env)
Loop(h, s, env) ==
  LET r == EvalE(h, s.c, env)
      after == ExecB(h, s.b, [env EXCEPT !.cnt = r.cnt])
  IN  IF r.v = 0 THEN [env EXCEPT !.cnt = r.cnt]
      ELSE CASE after.out = "ret" -> after
             [] after.out = "brk" -> [after EXCEPT !.out = "next"]
             [] OTHER -> Loop(h, s, [after EXCEPT !.out = "next"])
ExecB(h, b, env) ==
  IF b = <<>> \/ env.out # "next" THEN env ELSE ExecB(h, Tail(b), ExecS(h, b[1], env))

-----------------------------------------------------------------------------
(* The programs: a loop that counts LOCAL 0 up to the argument, with every *)
(* choice of statements from a pool in its body, and every choice of an    *)
(* end.  Continue is only used where nothing follows it in the body.       *)
Begins == <<Set(L(0), C(0)), Set(L(1), C(0))>>
Pool == {<<>>, <<Incr(L(1))>>, <<Set(L(1), G("CNT"))>>, <<Do(CallE("HLP", L(0)))>>,
         <<If(Log("LEQUAL_OP", L(0), A), <<Incr(L(1))>>, <<Brk>>)>>,
         <<If(L(1), <<Ret(Bin("ADD_OP", L(0), C(3)))>>, <<>>)>>,
         <<While(C(1), <<Incr(L(1)), If(A, <<Brk>>, <<Ret(L(1))>>)>>)>>,
         <<Set(G("CNT"), Bin("SUBTRACT_OP", G("CNT"), CallE("HLP", L(1))))>>}
LastOfBody == {<<>>, <<If(Log("LEQUAL_OP", L(0), A), <<Cont>>, <<Incr(L(1))>>)>>}
Ends == {<<>>, <<Ret(Bin("SUBTRACT_OP", L(1), L(0)))>>,
         <<If(G("CNT"), <<Ret(Bin("ADD_OP", G("CNT"), CallE("HLP", CallE("HLP", L(1)))))>>, <<Ret(C(2))>>)>>}
Helpers == {<<Set(G("CNT"), Bin("ADD_OP", G("CNT"), A)), Ret(Bin("XOR_OP", A, C(1)))>>}
Programs == {[helper |-> h, main |-> Begins \o <<While(Log("LLESS_OP", L(0), A), <<Incr(L(0))>> \o b \o c \o d)>> \o e] :
               h \in Helpers, b \in Pool, c \in Pool, d \in LastOfBody, e \in Ends}

ProgramTables == {Compile(p) : p \in Programs}
Main == Abs("MAIN")
InputValues == {0, 2}
SmallStacks == [s \in Stacks |-> CASE s = "ctx" -> 2 [] s = "blk" -> 3 [] s = "stk" -> 5 [] s = "op" -> 3]

(* What MAIN returns and what CNT is then, after the calls before it.      *)
Reference(p, x, cnt) ==
  LET r == ExecB(p.helper, p.main, [ARG |-> <<x>>, loc |-> <<0, 0>>, cnt |-> cnt, out |-> "next", val |-> 0])
  IN  [result |-> IF r.out = "ret" THEN r.val ELSE 0, cnt |-> r.cnt]

(***************************************************************************)
(* The first evaluation of MAIN by lai_eval returns what the program       *)
(* means, leaves what the program means in the namespace, and fails only   *)
(* for want of memory.                                                     *)
(***************************************************************************)
ResultCorrect ==
  (status = "idle" /\ Len(calls) = 1 /\ table[1].op = "EXTERNAL_OP" /\ calls[1].m = Main) =>
     \/ calls[1].error = "OUT_OF_MEMORY"
     \/ LET meaning == Reference(table[1].v, calls[1].x, 0)
        IN  /\ calls[1].error = "NONE"
            /\ calls[1].result = Integer(meaning.result)
            /\ ns[Resolve(ns, Root, Abs("CNT"))].val = Integer(meaning.cnt)
=============================================================================
