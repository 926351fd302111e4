-------------------------- MODULE MCLaiNamespace --------------------------
(***************************************************************************)
(* Definition blocks that build a namespace: every opcode that creates     *)
(* nodes, every kind of operator, methods that create nodes of their own,  *)
(* and blocks that fail half way.                                          *)
(***************************************************************************)
EXTENDS MCLaiExec

NameOp(s, code) == <<T("NAME_OP"), NameTok(s)>> \o code
Local0 == V("LOCAL", 0)
Null0 == T("ZERO_OP")
Path(segs) == [abs |-> TRUE, height |-> 0, segs |-> segs]

(* Registers, fields and the leaves of a device.                           *)
Registered ==
  <<T("OPREGION"), NameTok("REG"), V("BYTE", 0), Num(0), Num(8),
    V("FIELD", [regs |-> <<Seg("REG")>>, fields |-> <<Seg("IDX"), Seg("DAT")>>]),
    V("INDEXFIELD", [regs |-> <<Seg("IDX"), Seg("DAT")>>, fields |-> <<Seg("IFL")>>]),
    Pkg("BANKFIELD", [regs |-> <<Seg("REG"), Seg("IDX")>>, fields |-> <<>>],
        <<Num(1), V("FIELDS", <<Seg("BFL")>>)>>),
    V("MUTEX", Seg("MTX")), V("EVENT", Seg("EVT"))>>

Data ==
  NameOp("BUF", <<Pkg("BUFFER_OP", 0, <<Num(2)>>)>>)
  \o <<T("BYTEFIELD_OP"), NameTok("BUF"), Num(0), NameTok("BF0"),
       T("ARBFIELD_OP"), NameTok("BUF"), Num(0), Num(1), NameTok("BF1")>>
  \o NameOp("STR", <<V("CONST", Opaque("STRING"))>>)
  \o NameOp("PKG", <<Pkg("PACKAGE_OP", 0, <<V("BYTE", 2), Num(1), NameTok("BUF")>>)>>)
  \o NameOp("VPK", <<Pkg("VARPACKAGE_OP", 0, <<Num(2), Num(3)>>)>>)

Devices ==
  <<Pkg("SCOPE_OP", Abs("_SB_"), <<Pkg("DEVICE", Seg("DEV"), Registered),
      V("ALIAS_OP", [target |-> Seg("DEV"), name |-> Seg("ALI")])>>),
    Pkg("PROCESSOR", Seg("CPU"), <<>>),
    V("ALIAS_OP", [target |-> Path(<<"_SB_", "ALI">>), name |-> Seg("ALJ")])>>

(* A method that creates nodes, operates on them and returns one.          *)
Dev == V("NAME", Path(<<"_SB_", "DEV">>))
InDev(s) == V("NAME", Path(<<"_SB_", "DEV", s>>))
Operates ==
  <<T("CONDREF_OP"), NameTok("NONE"), Local0, T("CONDREF_OP"), NameTok("BUF"), Local0,
    T("DIVIDE_OP"), Num(7), Num(2), Null0, NameTok("TMP"),
    T("STORE_OP"), T("ACQUIRE_OP"), InDev("MTX"), V("WORD", 0), Local0, T("RELEASE_OP"), InDev("MTX"),
    T("WAIT_OP"), InDev("EVT"), Num(0), T("SIGNAL_OP"), InDev("EVT"),
    T("NOTIFY_OP"), Dev, Num(1), T("SLEEP_OP"), Num(1),
    T("TOINTEGER_OP"), NameTok("STR"), NameTok("BUF"), T("STORE_OP"), NameTok("STR"), InDev("IDX"),
    T("INCREMENT_OP"), InDev("IDX"), T("STORE_OP"), InDev("DAT"), NameTok("TMP"),
    T("TOHEXSTRING_OP"), Num(1), T("DEBUG_OP"), T("CONCAT_OP"), NameTok("STR"), Num(1), Null0,
    T("STORE_OP"), T("SIZEOF_OP"), NameTok("PKG"), Local0, T("NOT_OP"), Local0, Local0, T("LNOT_OP"), Local0,
    T("STORE_OP"), NameTok("STR"), NameTok("TMP"), T("DECREMENT_OP"), NameTok("TMP")>>

Creates ==
  NameOp("TMP", <<V("ARG", 0)>>)
  \o <<V("MUTEX", Seg("MTM")), T("NOP_OP"),
       MethodCode("NEST", 1, <<T("STORE_OP"), Num(5), V("ARG", 0)>>),
       NameTok("NEST"), T("REFOF_OP"), NameTok("TMP"),
       Pkg("BUFFER_OP", 0, <<Num(1)>>), Pkg("PACKAGE_OP", 0, <<V("BYTE", 0)>>), NameTok("BUF"), Num(3)>>
  \o <<T("RETURN_OP"), T("ADD_OP"), NameTok("TMP"), T("DEREF_OP"), T("REFOF_OP"), NameTok("TMP"), Null0>>

(* The same names again and again: the first definition counts.            *)
Again == NameOp("TMP", <<V("ARG", 0)>>) \o NameOp("TMP", <<Num(9)>>)
         \o <<T("INCREMENT_OP"), NameTok("TMP"), T("RETURN_OP"), T("ADD_OP"), NameTok("TMP"), NameTok("_REV"), Null0>>
Host0 == <<NameTok("_OSI"), V("CONST", Opaque("STRING")), T("STORE_OP"), NameTok("_OSI"), V("CONST", Opaque("STRING")), Local0>>
Table(code) == Assemble(code, 1)
Main1(code) == <<MethodCode("MAIN", 1, code)>>

GoodTables ==
  {Table(Data \o Devices \o Main1(NameOp("TMP", <<V("ARG", 0)>>) \o Operates)),
   Table(Data \o Main1(Creates)),
   Table(Data \o Main1(Host0 \o Again))}
BadTables ==
  {Table(Main1(Again) \o code) :
     code \in {<<Pkg("SCOPE_OP", Seg("NONE"), <<>>)>>, <<NameTok("NONE")>>,
               <<Pkg("DEVICE", Seg("MAIN"), <<>>)>>,
               <<T("OPREGION"), NameTok("REG"), V("BYTE", 0), Num(0), Num(8),
                 V("FIELD", [regs |-> <<Seg("REG")>>, fields |-> <<Seg("FLD"), Seg("FLD")>>])>>,
               <<T("OPREGION"), NameTok("REG"), V("BYTE", 0), Num(0), Num(8),
                 Pkg("BANKFIELD", [regs |-> <<Seg("REG"), Seg("REG")>>, fields |-> <<>>],
                     <<Num(1), V("FIELDS", <<Seg("FLD"), Seg("FLD")>>)>>)>>}}
NamespaceTables == GoodTables \cup BadTables

(* The programs of MCLaiExec and the blocks above.                         *)
AllTables == ProgramTables \cup NamespaceTables
MainAndBuf == {Main, Abs("BUF")}
(* A program keeps the name CNT from one evaluation to the next.           *)
IsProgram == table[1].op = "EXTERNAL_OP"

SameResult ==
  \A i, j \in DOMAIN calls :
    (calls[i].error = "NONE" /\ calls[j].error = "NONE" /\ calls[i].m = Main /\ calls[j].m = Main
       /\ calls[i].x = calls[j].x) => calls[i].result = calls[j].result

(***************************************************************************)
(* Evaluations of a method with the same argument give the same result:    *)
(* the names a method defines (NAME_OP) are removed when it returns, or    *)
(* the next evaluation would find the old ones and its own would be        *)
(* dropped as duplicates.                                                  *)
(***************************************************************************)
Repeatable == AllReturned /\ ~IsProgram => SameResult

(* Evaluation is correct: structured programs have the results and side    *)
(* effects they mean, and an evaluation leaves nothing behind that changes *)
(* the next one.                                                           *)
EvaluationCorrect == ResultCorrect /\ Repeatable
=============================================================================
