------------------------------ MODULE Session ------------------------------
(***************************************************************************)
(* One session of src/multimaster.c between the hooks of the engine: the   *)
(* utility hook (MtmProcessUtility) decides which statements are sent to   *)
(* the other nodes as DDL, the executor hooks (MtmExecutorStart,           *)
(* MtmExecutorFinish) find the queries that write and the functions that   *)
(* are run as DDL, the list of settings (MtmGucSet, MtmGucSerialize)       *)
(* remembers the SET commands of the session so that a DDL can be replayed *)
(* under them, and MtmTx says at the commit whether the transaction takes  *)
(* the two-phase path of module Commit.                                    *)
(*                                                                         *)
(* Kept: MtmTx with the flags these hooks read and write, MtmDDLStatement, *)
(* MtmGucHash and MtmGucList, MtmLocalTables, the statements put aside for *)
(* the apply worker, and the logical messages of the transaction.          *)
(* Abstracted: a statement is its branch of the switch, a setting is one   *)
(* of four names, the text of a message is left out and the list of SET    *)
(* commands in it is modelled by what replaying it gives (Replay).  The    *)
(* quoting of values in MtmGucSerialize is wording.                        *)
(*                                                                         *)
(* Not in this repository, and modelled after what the hooks expect: the   *)
(* engine's transaction blocks and savepoints (what a rollback takes       *)
(* back), its settings (SET, RESET, RESET ALL, DISCARD ALL), the flag      *)
(* MyXactAccessedTempRel, and the apply worker, which runs a DDL message   *)
(* through the same utility hook with MtmApplyContext set.  The node is    *)
(* online, and XACT_EVENT_START comes once in a transaction.               *)
(***************************************************************************)
EXTENDS Integers, Sequences, FiniteSets, SequencesExt

CONSTANTS
    User,                     \* role names
    Login,                    \* bound: the users a backend comes in as
    MtmDatabaseUser,          \* multimaster.database_user, the user of the apply workers
    Value,                    \* values of the other settings
    MtmIgnoreTablesWithoutPk, \* multimaster.ignore_tables_without_pk
    MtmVolksWagenMode,        \* multimaster.volkswagen_mode
    MtmMonotonicSequences,    \* multimaster.monotonic_sequences
    Workload,                 \* bound: what a session issues, see Issues
    MaxStmts,                 \* bound: statements of one transaction
    MaxSets,                  \* bound: settings statements of one transaction
    MaxDepth                  \* bound: statements inside one another

ASSUME /\ MtmDatabaseUser \in User
       /\ Login \subseteq User
       /\ {MtmIgnoreTablesWithoutPk, MtmVolksWagenMode, MtmMonotonicSequences} \subseteq BOOLEAN
       /\ Workload \subseteq {"statements", "settings"}
       /\ MaxStmts \in Nat /\ MaxSets \in Nat /\ MaxDepth \in Nat \ {0}

VARIABLES
    MtmIsLogicalReceiver,  \* the process is an apply worker, not a backend
    login,                 \* the user the session came in as
    workload,              \* what the session issues
    x,                     \* MtmTx
    MtmDDLStatement,       \* the statement whose DDL message is open
    MyXactAccessedTempRel, \* the engine's flag
    MtmGuc,                \* MtmGucHash (is it there) and MtmGucList
    MtmLocalTables,        \* the tables in the hash of local tables
    aside,                 \* MtmVacuumStmt, MtmIndexStmt, MtmDropStmt, MtmTablespaceStmt
    txn,                   \* the engine's transaction: none, command, block, failed
    open,                  \* the statements being executed, outermost first
    nstmt,                 \* statements of this transaction
    wal,                   \* logical messages of this transaction
    flushed,               \* messages "C" of concurrent DDL, flushed at once
    savepoint,             \* what ROLLBACK TO SAVEPOINT goes back to
    guc,                   \* the settings of the session
    catalog,               \* is there a row of mtm.local_tables for the table made local
    atStart,               \* what a rollback of the transaction restores
    drift                  \* settings changed, since the session began, where
                           \* MtmGucSet does not follow

fixed == <<MtmIsLogicalReceiver, login, workload>>
vars == <<fixed, x, MtmDDLStatement, MyXactAccessedTempRel, MtmGuc, MtmLocalTables, aside,
          txn, open, nstmt, wal, flushed, savepoint, guc, catalog, atStart, drift>>

NULL == 0
Stale == -1           \* the address of a statement that is not executed any more
Default == "default"
NoSave == [set |-> FALSE]

Key == {"session_authorization", "role", "search_path", "work_mem"}
Concurrent == {"Tablespace", "Vacuum", "IndexConcurrently", "DropConcurrently"}
Tag == Concurrent \cup {"Skipped", "Createdb", "VacuumLocal", "CreateDomain", "Truncate", "CopyFrom",
                        "CopyLocal", "CreateFunction", "Other"}
\* utility statements; temp: the domain is over the row type of a temporary
\* table, the function takes or returns one, the statement touches one
UtilityStmt == [tag : Tag \ {"CreateDomain", "CreateFunction", "Other"}, temp : {FALSE}]
               \cup [tag : {"CreateDomain", "CreateFunction", "Other"}, temp : BOOLEAN]
\* queries: whether the target list calls a function that is run as DDL, and
\* what the query has written when it finishes
Query == [tag : {"Query"}, remote : BOOLEAN, wrote : {"nothing", "table", "table_without_pk"}]
VarSetKind == {"VAR_SET_VALUE", "VAR_SET_DEFAULT", "VAR_RESET", "VAR_RESET_ALL", "VAR_SET_MULTI"}

-----------------------------------------------------------------------------
(* The settings of the engine, and of the list *)

DefaultOf(k, who) == IF k = "session_authorization" THEN who ELSE Default

\* a change of the session's user takes the role back
EngineSet(g, k, v) ==
    IF k = "session_authorization" THEN [g EXCEPT ![k] = v, !["role"] = Default]
    ELSE [g EXCEPT ![k] = v]

\* RESET ALL leaves the user and the role
EngineResetAll(g) ==
    [k \in Key |-> IF k \in {"session_authorization", "role"} THEN g[k] ELSE Default]

Defaults(who) == [k \in Key |-> DefaultOf(k, who)]

\* the settings of the engine after a SET statement
EngineVariableSet(g, stmt, who) ==
    CASE stmt.kind = "VAR_SET_VALUE" -> EngineSet(g, stmt.name, stmt.value)
      [] stmt.kind \in {"VAR_SET_DEFAULT", "VAR_RESET"} ->
             EngineSet(g, stmt.name, DefaultOf(stmt.name, who))
      [] stmt.kind = "VAR_RESET_ALL" -> EngineResetAll(g)
      [] OTHER -> g

Without(list, key) == SelectSeq(list, LAMBDA e : e.key # key)

MtmGucInit(h, current_role) ==
    [hash |-> TRUE,
     list |-> IF current_role # MtmDatabaseUser
              THEN Append(h.list, [key |-> "session_authorization", value |-> current_role])
              ELSE h.list]

\* if (!MtmGucHash) MtmGucInit();
Ready(h, current_role) == IF h.hash THEN h ELSE MtmGucInit(h, current_role)

MtmGucDiscard(h) == IF h.list = <<>> THEN h ELSE [hash |-> FALSE, list |-> <<>>]

MtmGucUpdate_InPlace(h, key, value, current_role) ==
    LET r == Ready(h, current_role) IN
    IF \E i \in DOMAIN r.list : r.list[i].key = key
    THEN [r EXCEPT !.list = [i \in DOMAIN @ |-> IF @[i].key = key
                                                THEN [key |-> key, value |-> value] ELSE @[i]]]
    ELSE [r EXCEPT !.list = Append(@, [key |-> key, value |-> value])]

\* the entry moves to the end of the list
MtmGucUpdate(h, key, value, current_role) ==
    [Ready(h, current_role) EXCEPT
        !.list = Append(Without(@, key), [key |-> key, value |-> value])]

MtmGucRemove(h, key, current_role) ==
    [Ready(h, current_role) EXCEPT !.list = Without(@, key)]

MtmGucSet(h, stmt, current_role) ==
    LET r == Ready(h, current_role) IN
    CASE stmt.kind = "VAR_SET_VALUE" -> MtmGucUpdate(r, stmt.name, stmt.value, current_role)
      [] stmt.kind = "VAR_SET_DEFAULT" -> MtmGucRemove(r, stmt.name, current_role)
      [] stmt.kind = "VAR_RESET" ->
             MtmGucRemove(IF stmt.name = "session_authorization"
                          THEN MtmGucRemove(r, "role", current_role) ELSE r,
                          stmt.name, current_role)
      [] stmt.kind = "VAR_RESET_ALL" -> MtmGucDiscard(r)
      [] OTHER -> r

\* the SET commands a DDL message begins with: the list without search_path,
\* then the search_path of the session
MtmGucSerialize(h, g) ==
    LET r == Ready(h, g["session_authorization"]) IN
    [guc  |-> r,
     sets |-> Append(Without(r.list, "search_path"),
                     [key |-> "search_path", value |-> g["search_path"]])]

\* what an apply worker has after "RESET SESSION AUTHORIZATION; reset all;"
\* and the SET commands of the message
Replay(sets) ==
    FoldLeft(LAMBDA g, e : EngineSet(g, e.key, e.value), Defaults(MtmDatabaseUser), sets)

Context == Replay(MtmGucSerialize(MtmGuc, guc).sets)

-----------------------------------------------------------------------------
(* MtmTx, and what the hooks decide *)

ValuesOf(k) == IF k = "session_authorization" THEN User ELSE Value

\* SET name = value, SET LOCAL, SET name TO DEFAULT, RESET name, RESET ALL,
\* SET TRANSACTION
VariableSetStmt ==
    UNION {[kind : {"VAR_SET_VALUE"}, name : {k}, value : ValuesOf(k), is_local : BOOLEAN]
           : k \in Key}
    \cup [kind : {"VAR_SET_DEFAULT", "VAR_RESET"}, name : Key, value : {Default}, is_local : {FALSE}]
    \cup [kind : {"VAR_RESET_ALL", "VAR_SET_MULTI"}, name : {"all"}, value : {Default},
          is_local : {FALSE}]

NoTx == [isReplicated |-> FALSE, isDistributed |-> FALSE, containsDML |-> FALSE,
         isTransactionBlock |-> FALSE, isTwoPhase |-> FALSE, snapshot |-> FALSE]

MtmIsUserTransaction == ~MtmIsLogicalReceiver

MtmResetTransaction(xx) ==
    [xx EXCEPT !.snapshot = FALSE, !.isDistributed = FALSE, !.isTwoPhase = FALSE]

\* the engine's IsTransactionBlock(): false when a transaction starts, BEGIN
\* comes through the utility hook after XACT_EVENT_START
IsTransactionBlock == txn = "block"

\* XACT_EVENT_START of a transaction: x->snapshot is INVALID_CSN after
\* MtmResetTransaction
MtmBeginTransaction(xx) ==
    [xx EXCEPT !.isReplicated = MtmIsLogicalReceiver, !.isDistributed = MtmIsUserTransaction,
               !.isTwoPhase = FALSE, !.isTransactionBlock = IsTransactionBlock,
               !.containsDML = FALSE,
               !.snapshot = TRUE]

MtmTwoPhaseCommit(xx) == ~xx.isReplicated /\ xx.isDistributed /\ xx.containsDML

MtmCreateSavepointContext(xx) == xx.containsDML

MtmRestoreSavepointContext_Reset(xx, ctx) == [xx EXCEPT !.containsDML = FALSE]

MtmRestoreSavepointContext(xx, ctx) == [xx EXCEPT !.containsDML = ctx]

\* MtmTx, MtmDDLStatement and the engine's flag as a statement finds them:
\* the first statement of a transaction comes after XACT_EVENT_START
Cmd ==
    IF txn = "none"
    THEN [x |-> MtmBeginTransaction(x), marker |-> NULL, temp |-> FALSE]
    ELSE [x |-> x, marker |-> MtmDDLStatement, temp |-> MyXactAccessedTempRel]

Logs_Nested(xx, skipCommand, marker) == ~skipCommand /\ ~xx.isReplicated

\* is the statement sent as a DDL message: not inside another that was
Logs(xx, skipCommand, marker) == ~skipCommand /\ ~xx.isReplicated /\ marker = NULL

\* what a hook has in hand: MtmTx, the messages and the list of settings
Hooked(xx, list) == [x |-> xx, wal |-> wal, list |-> list]

\* a transactional DDL: message "D" with the settings of the session before
\* the statement
MtmProcessDDLCommand(h) ==
    IF h.x.isReplicated THEN h
    ELSE [x    |-> [h.x EXCEPT !.containsDML = TRUE],
          wal  |-> Append(h.wal, "D"),
          list |-> MtmGucSerialize(h.list, guc).guc]

MtmFinishDDLCommand(messages) == Append(messages, "E")

\* do the arguments or the result of the function have the row type of a
\* temporary table
MtmFunctionProfileDependsOnTempTable(stmt) == stmt.tag = "CreateFunction" /\ stmt.temp

\* "Xact accessed temp table, stopping replication"
StopReplication(xx, temp) ==
    IF temp THEN [xx EXCEPT !.isDistributed = FALSE, !.snapshot = FALSE] ELSE xx

\* the switch of MtmProcessUtility over the statements that are not
\* transaction control or settings.  toplevel: context is
\* PROCESS_UTILITY_TOPLEVEL; the worker has MtmApplyContext.
Switch(stmt, xx, toplevel, temp) ==
    LET base    == [skip |-> FALSE, x |-> xx, temp |-> temp, aside |-> FALSE, concurrent |-> FALSE]
        skipped == [base EXCEPT !.skip = TRUE]
        sent    == [skipped EXCEPT !.concurrent = TRUE]
        local   == [sent EXCEPT !.x.isDistributed = FALSE]
        saved   == [base EXCEPT !.aside = TRUE]
        tag     == stmt.tag
    IN  CASE tag \in {"Skipped", "VacuumLocal"} -> skipped
          [] tag = "Tablespace" -> IF MtmIsLogicalReceiver THEN saved ELSE sent
          [] tag = "Vacuum" ->
                 CASE MtmVolksWagenMode -> skipped
                   [] toplevel -> local
                   [] MtmIsLogicalReceiver -> saved
                   [] OTHER -> skipped
          [] tag \in {"IndexConcurrently", "DropConcurrently"} ->
                 CASE toplevel -> local
                   [] MtmIsLogicalReceiver -> saved
                   [] OTHER -> base
          [] tag = "CreateDomain" -> [base EXCEPT !.temp = temp \/ stmt.temp]
          [] tag = "CopyFrom" -> [skipped EXCEPT !.x.containsDML = TRUE]
          [] tag = "CopyLocal" ->
                 [skipped EXCEPT !.x.containsDML = FALSE, !.x.isDistributed = FALSE,
                                 !.x.snapshot = FALSE]
          [] OTHER -> base

\* the settings where the list and the session may part after the statement
Touched(stmt) ==
    CASE stmt.kind = "VAR_RESET_ALL" -> Key
      [] stmt.kind = "VAR_SET_MULTI" -> {}
      [] stmt.name = "session_authorization" -> {"session_authorization", "role"}
      [] OTHER -> {stmt.name}

\* the statements MtmGucSet does not follow though it is called: RESET ALL
\* forgets the role, and a session_authorization taken back is the user of
\* the session here and MtmDatabaseUser there
Holes(stmt) ==
    CASE stmt.kind = "VAR_RESET_ALL" -> {"role"}
      [] stmt.kind \in {"VAR_SET_DEFAULT", "VAR_RESET"} /\ stmt.name = "session_authorization" ->
             (IF login # MtmDatabaseUser THEN {"session_authorization"} ELSE {})
             \cup (IF stmt.kind = "VAR_SET_DEFAULT" THEN {"role"} ELSE {})
      [] OTHER -> {}

-----------------------------------------------------------------------------
(* Statements *)

Top == open[Len(open)]

\* what the hooks and the engine read of a statement after it is called:
\* is it CREATE FUNCTION, a query and what it wrote, does executing it
\* touch a temporary table
Frame(stmt, executed, prev) ==
    [tag      |-> IF stmt.tag \in {"Query", "CreateFunction"} THEN stmt.tag ELSE "Utility",
     temp     |-> MtmFunctionProfileDependsOnTempTable(stmt)
                  \/ (stmt.tag = "Other" /\ stmt.temp),
     wrote    |-> IF stmt.tag = "Query" THEN stmt.wrote ELSE "nothing",
     executed |-> executed,
     prev     |-> prev]

\* The settings of a session and the statements of its transactions meet
\* where a SET in a block is sent as a DDL and where MtmGucSerialize makes
\* the hash; a session that issues settings has both.  A session issues
\* either settings and transaction control, or every other kind of
\* statement with savepoints.
Issues ==
    IF workload = "settings"
    THEN [utility |-> {}, query |-> {}, settings |-> VariableSetStmt, stmts |-> MaxSets]
    ELSE [utility |-> UtilityStmt, query |-> Query, settings |-> {}, stmts |-> MaxStmts]

\* the engine takes a statement: at the top level between two commands, or
\* inside a statement that is being executed (a function, a DO block)
CanEnter ==
    /\ txn # "failed"
    /\ open = <<>> => txn \in {"none", "block"} \cup (IF MtmIsLogicalReceiver THEN {"command"} ELSE {})
    /\ Len(open) < MaxDepth
    /\ nstmt < Issues.stmts

Entered ==
    /\ txn' = IF txn = "none" THEN "command" ELSE txn
    /\ nstmt' = nstmt + 1

\* ereport(ERROR): the statements being executed are left, and a pointer to
\* one of them stays where it is
Raise(marker) ==
    /\ txn' = "failed"
    /\ open' = <<>>
    /\ MtmDDLStatement' = IF marker = NULL THEN NULL ELSE Stale

\* the utility hook up to standard_ProcessUtility
MtmProcessUtility(stmt) ==
    LET c    == Cmd
        s    == Switch(stmt, c.x, ~MtmIsLogicalReceiver /\ open = <<>>, c.temp)
        logs == ~s.aside /\ Logs(s.x, s.skip, c.marker)
        h    == Hooked(s.x, MtmGuc)
        d    == IF logs THEN MtmProcessDDLCommand(h) ELSE h
    IN  /\ CanEnter /\ Entered
        /\ stmt.tag # "Createdb"
        /\ MyXactAccessedTempRel' = s.temp
        /\ flushed' = IF s.concurrent /\ ~c.x.isReplicated THEN flushed + 1 ELSE flushed
        /\ aside' = IF s.aside THEN aside \cup {stmt.tag} ELSE aside
        /\ open' = IF s.aside THEN open
                   ELSE Append(open, Frame(stmt, logs, s.temp))
        /\ x' = d.x /\ wal' = d.wal /\ MtmGuc' = d.list
        /\ MtmDDLStatement' = IF logs THEN Len(open) + 1 ELSE c.marker
        /\ UNCHANGED <<fixed, MtmLocalTables, savepoint, guc, catalog, atStart, drift>>

\* CREATE DATABASE, DROP DATABASE
Refused ==
    LET c == Cmd
    IN  /\ CanEnter
        /\ workload = "statements"
        /\ nstmt' = nstmt + 1
        /\ Raise(c.marker)
        /\ x' = c.x
        /\ MyXactAccessedTempRel' = c.temp
        /\ UNCHANGED <<fixed, MtmGuc, MtmLocalTables, aside, wal, flushed, savepoint, guc,
                       catalog, atStart, drift>>

\* the utility hook after standard_ProcessUtility
UtilityReturns ==
    LET e        == Top
        temp     == IF e.tag = "CreateFunction" THEN e.prev \/ e.temp
                    ELSE MyXactAccessedTempRel \/ e.temp
    IN  /\ open # <<>>
        /\ e.tag # "Query"
        /\ open' = Front(open)
        /\ MyXactAccessedTempRel' = temp
        /\ x' = StopReplication(x, temp)
        /\ wal' = IF e.executed THEN MtmFinishDDLCommand(wal) ELSE wal
        /\ MtmDDLStatement' = IF e.executed THEN NULL ELSE MtmDDLStatement
        /\ UNCHANGED <<fixed, MtmGuc, MtmLocalTables, aside, txn, nstmt, flushed, savepoint,
                       guc, catalog, atStart, drift>>

MtmExecutorStart(q) ==
    LET c    == Cmd
        logs == Logs(c.x, ~q.remote, c.marker)
        h    == Hooked(c.x, MtmGuc)
        d    == IF logs THEN MtmProcessDDLCommand(h) ELSE h
    IN  /\ CanEnter /\ Entered
        /\ open' = Append(open, Frame(q, FALSE, FALSE))
        /\ x' = d.x /\ wal' = d.wal /\ MtmGuc' = d.list
        /\ MtmDDLStatement' = IF logs THEN Len(open) + 1 ELSE c.marker
        /\ MyXactAccessedTempRel' = c.temp
        /\ UNCHANGED <<fixed, MtmLocalTables, aside, flushed, savepoint, guc, catalog, atStart,
                       drift>>

\* "W": the rows of the query are in the log and are sent
MtmExecutorFinish ==
    LET q       == Top
        ignored == MtmIgnoreTablesWithoutPk /\ q.wrote = "table_without_pk"
        writes  == q.wrote # "nothing" /\ ~ignored
        mine    == MtmDDLStatement = Len(open)
    IN  /\ open # <<>>
        /\ q.tag = "Query"
        /\ open' = Front(open)
        /\ MtmLocalTables' = IF ignored THEN MtmLocalTables \cup {"without_pk"} ELSE MtmLocalTables
        /\ x' = IF writes THEN [x EXCEPT !.containsDML = TRUE] ELSE x
        /\ wal' = LET written == IF writes THEN Append(wal, "W") ELSE wal
                  IN  IF mine THEN MtmFinishDDLCommand(written) ELSE written
        /\ MtmDDLStatement' = IF mine THEN NULL ELSE MtmDDLStatement
        /\ UNCHANGED <<fixed, MyXactAccessedTempRel, MtmGuc, aside, txn, nstmt, flushed,
                       savepoint, guc, catalog, atStart, drift>>

\* a function of the query that is being executed
Calls ==
    /\ open # <<>>
    /\ Top.tag = "Query"
    /\ nstmt < MaxStmts
    /\ nstmt' = nstmt + 1
    /\ UNCHANGED <<fixed, MtmDDLStatement, MyXactAccessedTempRel, MtmGuc, aside, txn, open,
                   flushed, savepoint, guc, atStart, drift>>

mtm_make_table_local ==
    /\ Calls
    /\ MtmLocalTables' = MtmLocalTables \cup {"made_local"}
    /\ catalog' = TRUE
    /\ x' = [x EXCEPT !.containsDML = TRUE]
    /\ wal' = Append(wal, "W")

mtm_broadcast_table ==
    /\ Calls
    /\ wal' = Append(wal, "B")
    /\ x' = [x EXCEPT !.containsDML = TRUE]
    /\ UNCHANGED <<MtmLocalTables, catalog>>

MtmSeqNextvalHook ==
    /\ Calls
    /\ wal' = IF MtmMonotonicSequences THEN Append(wal, "N") ELSE wal
    /\ UNCHANGED <<x, MtmLocalTables, catalog>>

\* an error in a statement that is being executed
Error ==
    /\ open # <<>>
    /\ Raise(MtmDDLStatement)
    /\ UNCHANGED <<fixed, x, MyXactAccessedTempRel, MtmGuc, MtmLocalTables, aside, nstmt, wal,
                   flushed, savepoint, guc, catalog, atStart, drift>>

-----------------------------------------------------------------------------
(* Settings *)

\* SET and RESET, hook and statement.  Outside a transaction block the hook
\* calls MtmGucSet, before the engine has looked at the statement; in a block
\* the statement is a DDL like another.  ok: the engine accepts it.  SET
\* LOCAL is told apart outside a block only, where the engine ignores it.
VariableSet(stmt, ok) ==
    LET c       == Cmd
        tracked == ~IsTransactionBlock
        logs    == Logs(c.x, stmt.kind = "VAR_SET_MULTI" \/ tracked, c.marker)
        took    == ok /\ ~stmt.is_local
        h       == Hooked(c.x, IF tracked
                                THEN MtmGucSet(MtmGuc, stmt, guc["session_authorization"])
                                ELSE MtmGuc)
        d       == IF logs THEN MtmProcessDDLCommand(h) ELSE h
    IN  /\ CanEnter
        /\ open = <<>>
        /\ stmt.is_local => tracked
        /\ nstmt' = nstmt + 1
        /\ MtmGuc' = d.list
        /\ guc' = IF took THEN EngineVariableSet(guc, stmt, login) ELSE guc
        /\ drift' = drift \cup IF tracked /\ took THEN Holes(stmt) ELSE Touched(stmt)
        /\ MyXactAccessedTempRel' = c.temp
        /\ IF ok
           THEN /\ txn' = IF txn = "none" THEN "command" ELSE txn
                /\ x' = StopReplication(d.x, c.temp)
                /\ wal' = IF logs THEN MtmFinishDDLCommand(d.wal) ELSE d.wal
                /\ MtmDDLStatement' = c.marker
                /\ open' = open
           ELSE /\ Raise(IF logs THEN 1 ELSE c.marker)
                /\ x' = d.x
                /\ wal' = d.wal
        /\ UNCHANGED <<fixed, MtmLocalTables, aside, flushed, savepoint, catalog, atStart>>

\* MtmGucDiscard returns early when the list is empty, and the hash that
\* stays was made when the session was MtmDatabaseUser
DiscardHoles ==
    IF ~IsTransactionBlock /\ MtmGuc.hash /\ MtmGuc.list = <<>> /\ login # MtmDatabaseUser
    THEN {"session_authorization"} ELSE {}

\* DISCARD ALL, which the engine refuses in a transaction block
Discard ==
    LET c    == Cmd
        logs == Logs(c.x, ~IsTransactionBlock, c.marker)
        h    == Hooked(c.x, MtmGuc)
        d    == IF logs THEN MtmProcessDDLCommand(h) ELSE h
    IN  /\ CanEnter
        /\ workload = "settings"
        /\ open = <<>>
        /\ nstmt' = nstmt + 1
        /\ MyXactAccessedTempRel' = c.temp
        /\ drift' = drift \cup DiscardHoles
        /\ IF IsTransactionBlock
           THEN /\ Raise(IF logs THEN 1 ELSE c.marker)
                /\ x' = d.x /\ wal' = d.wal /\ MtmGuc' = d.list
                /\ UNCHANGED guc
           ELSE /\ txn' = "command"
                /\ MtmGuc' = MtmGucDiscard(MtmGuc)
                /\ guc' = Defaults(login)
                /\ x' = StopReplication(c.x, c.temp)
                /\ MtmDDLStatement' = c.marker
                /\ UNCHANGED <<open, wal>>
        /\ UNCHANGED <<fixed, MtmLocalTables, aside, flushed, savepoint, catalog, atStart>>

-----------------------------------------------------------------------------
(* Transactions *)

\* BEGIN
Begin ==
    /\ txn = "none"
    /\ ~MtmIsLogicalReceiver
    /\ txn' = "block"
    /\ x' = [MtmBeginTransaction(x) EXCEPT !.isTransactionBlock = TRUE]
    /\ MtmDDLStatement' = NULL
    /\ MyXactAccessedTempRel' = FALSE
    /\ UNCHANGED <<fixed, MtmGuc, MtmLocalTables, aside, open, nstmt, wal, flushed, savepoint,
                   guc, catalog, atStart, drift>>

\* SAVEPOINT: one at a time
Savepoint ==
    /\ txn = "block"
    /\ workload = "statements"
    /\ open = <<>>
    /\ ~savepoint.set
    /\ x' = StopReplication(x, MyXactAccessedTempRel)
    /\ savepoint' = [set |-> TRUE, ctx |-> MtmCreateSavepointContext(x'), wal |-> Len(wal),
                     guc |-> guc, catalog |-> catalog]
    /\ UNCHANGED <<fixed, MtmDDLStatement, MyXactAccessedTempRel, MtmGuc, MtmLocalTables, aside,
                   txn, open, nstmt, wal, flushed, guc, catalog, atStart, drift>>

\* ROLLBACK TO SAVEPOINT, of a transaction that runs or has failed
RollbackTo ==
    /\ txn \in {"block", "failed"}
    /\ open = <<>>
    /\ savepoint.set
    /\ txn' = "block"
    /\ x' = MtmRestoreSavepointContext(StopReplication(x, MyXactAccessedTempRel), savepoint.ctx)
    /\ wal' = SubSeq(wal, 1, savepoint.wal)
    /\ guc' = savepoint.guc
    /\ catalog' = savepoint.catalog
    /\ UNCHANGED <<fixed, MtmDDLStatement, MyXactAccessedTempRel, MtmGuc, MtmLocalTables, aside,
                   open, nstmt, flushed, savepoint, atStart, drift>>

\* RELEASE SAVEPOINT
Release ==
    /\ txn = "block"
    /\ open = <<>>
    /\ savepoint.set
    /\ savepoint' = NoSave
    /\ x' = StopReplication(x, MyXactAccessedTempRel)
    /\ UNCHANGED <<fixed, MtmDDLStatement, MyXactAccessedTempRel, MtmGuc, MtmLocalTables, aside,
                   txn, open, nstmt, wal, flushed, guc, catalog, atStart, drift>>

\* the transaction leaves the session: what the engine keeps of it.  A row
\* of the catalog that is committed or prepared stays.
Over(commit) ==
    /\ MyXactAccessedTempRel' = FALSE
    /\ txn' = "none"
    /\ open' = <<>>
    /\ nstmt' = 0
    /\ wal' = <<>>
    /\ flushed' = 0
    /\ aside' = {}
    /\ savepoint' = NoSave
    /\ guc' = IF commit THEN guc ELSE atStart.guc
    /\ catalog' = IF commit THEN catalog ELSE atStart.catalog
    /\ atStart' = [guc |-> guc', catalog |-> catalog']
    /\ UNCHANGED <<fixed, MtmGuc, MtmLocalTables, drift>>

\* XACT_EVENT_COMMIT and XACT_EVENT_ABORT
MtmEndTransaction(commit) ==
    /\ x' = MtmResetTransaction(x)
    /\ MtmDDLStatement' = NULL
    /\ Over(commit)

\* a commit that takes the two-phase path ends as the other nodes vote
Commits(voted) == MtmTwoPhaseCommit(x) => voted

\* COMMIT of a transaction block
Commit(voted) ==
    /\ txn = "block"
    /\ open = <<>>
    /\ MtmEndTransaction(Commits(voted))

\* XACT_EVENT_COMMIT_COMMAND of a statement outside a block; the apply worker
\* ends its transaction
CommitCommand(voted) ==
    /\ txn = "command"
    /\ open = <<>>
    /\ MtmEndTransaction(Commits(voted))

\* PREPARE TRANSACTION: the hook, then MtmPostPrepareTransaction
Prepare ==
    /\ txn = "block"
    /\ open = <<>>
    /\ x' = MtmResetTransaction(StopReplication([x EXCEPT !.isTwoPhase = TRUE],
                                                MyXactAccessedTempRel))
    /\ MtmDDLStatement' = NULL
    /\ Over(TRUE)

\* ROLLBACK, by the user or by the engine after an error outside a block
Rollback ==
    /\ txn \in {"block", "failed"}
    /\ open = <<>>
    /\ MtmEndTransaction(FALSE)

-----------------------------------------------------------------------------

Init ==
    /\ MtmIsLogicalReceiver \in BOOLEAN
    /\ login \in IF MtmIsLogicalReceiver THEN {MtmDatabaseUser} ELSE Login
    /\ workload \in IF MtmIsLogicalReceiver THEN Workload \ {"settings"} ELSE Workload
    /\ x = NoTx
    /\ MtmDDLStatement = NULL
    /\ MyXactAccessedTempRel = FALSE
    /\ MtmGuc = [hash |-> FALSE, list |-> <<>>]
    /\ MtmLocalTables = {}
    /\ aside = {}
    /\ txn = "none"
    /\ open = <<>>
    /\ nstmt = 0
    /\ wal = <<>>
    /\ flushed = 0
    /\ savepoint = NoSave
    /\ guc = Defaults(login)
    /\ catalog = FALSE
    /\ atStart = [guc |-> guc, catalog |-> catalog]
    /\ drift = {}

Next ==
    \/ \E stmt \in Issues.utility : MtmProcessUtility(stmt)
    \/ Refused
    \/ UtilityReturns
    \/ \E q \in Issues.query : MtmExecutorStart(q)
    \/ MtmExecutorFinish
    \/ mtm_make_table_local
    \/ mtm_broadcast_table
    \/ MtmSeqNextvalHook
    \/ Error
    \/ \E stmt \in Issues.settings, ok \in BOOLEAN : VariableSet(stmt, ok)
    \/ Discard
    \/ Begin
    \/ Savepoint
    \/ RollbackTo
    \/ Release
    \/ \E voted \in BOOLEAN : Commit(voted)
    \/ \E voted \in BOOLEAN : CommitCommand(voted)
    \/ Prepare
    \/ Rollback

Spec == Init /\ [][Next]_vars

-----------------------------------------------------------------------------

Entry == [tag : {"Utility", "CreateFunction", "Query"}, temp : BOOLEAN,
          wrote : {"nothing", "table", "table_without_pk"}, executed : BOOLEAN, prev : BOOLEAN]
Setting == [key : Key, value : User \cup Value]
Settings == [Key -> User \cup Value \cup {Default}]

TypeOK ==
    /\ MtmIsLogicalReceiver \in BOOLEAN
    /\ login \in User
    /\ workload \in Workload
    /\ x \in [DOMAIN NoTx -> BOOLEAN]
    /\ MtmDDLStatement \in {Stale, NULL} \cup 1..MaxDepth
    /\ MyXactAccessedTempRel \in BOOLEAN
    /\ MtmGuc \in [hash : BOOLEAN, list : Seq(Setting)]
    /\ MtmLocalTables \subseteq {"without_pk", "made_local"}
    /\ aside \subseteq Concurrent
    /\ txn \in {"none", "command", "block", "failed"}
    /\ open \in Seq(Entry) /\ Len(open) <= MaxDepth
    /\ nstmt \in 0..MaxStmts
    /\ wal \in Seq({"D", "E", "W", "B", "N"})
    /\ flushed \in 0..MaxStmts
    /\ savepoint.set \in BOOLEAN
    /\ {guc, atStart.guc} \subseteq Settings
    /\ catalog \in BOOLEAN
    /\ drift \subseteq Key

(***************************************************************************)
(* A DDL is replayed under the settings of the session: every setting that *)
(* was changed only by statements MtmGucSet follows (SET, SET TO DEFAULT   *)
(* and RESET outside a transaction block, DISCARD ALL) has, after the SET  *)
(* commands MtmGucSerialize puts before the DDL, the value it has in the   *)
(* session.  MtmGucUpdate moves a setting that is set again to the end of  *)
(* MtmGucList, because setting session_authorization takes the role back   *)
(* and the order of the two is their meaning.                              *)
(***************************************************************************)
ContextFollowsTracked ==
    ~MtmIsLogicalReceiver =>
        LET there == Context IN \A k \in Key \ drift : there[k] = guc[k]

(***************************************************************************)
(* The same of every setting, which is what MtmProcessDDLCommand is for:   *)
(* the apply worker runs the DDL as the session would.  RESET ALL          *)
(* (MtmGucDiscard, "XXX: shouldn't we keep auth/role here?"), a SET in a   *)
(* transaction block, a SET the engine refuses after MtmGucSet has taken   *)
(* it, and a RESET of session_authorization by a user that is not          *)
(* MtmDatabaseUser break it.                                               *)
(***************************************************************************)
ContextFollowsSession ==
    ~MtmIsLogicalReceiver => Context = guc

DDLMessages == SelectSeq(wal, LAMBDA m : m \in {"D", "E"})

(***************************************************************************)
(* The messages "D" and "E" of a transaction bracket the statements that   *)
(* are replayed: they alternate, beginning with "D", and a "D" is open     *)
(* exactly while MtmDDLStatement points to a statement being executed.  A  *)
(* statement inside a DDL (MtmProcessUtility and MtmExecutorStart test     *)
(* !MtmDDLStatement) is replayed with it, never logged again.              *)
(***************************************************************************)
MessagesPaired ==
    txn # "failed" =>
        /\ \A i \in DOMAIN DDLMessages : DDLMessages[i] = IF i % 2 = 1 THEN "D" ELSE "E"
        /\ Len(DDLMessages) % 2 = 1 <=> MtmDDLStatement \in 1..Len(open)

(***************************************************************************)
(* MtmDDLStatement is NULL or points to a statement being executed.  It is *)
(* cleared by the statement that set it (MtmProcessUtility after           *)
(* standard_ProcessUtility, MtmExecutorFinish) and at the end of the       *)
(* transaction, so an error in a DDL under a savepoint leaves it set after *)
(* ROLLBACK TO SAVEPOINT, and no later DDL of the transaction is logged.   *)
(***************************************************************************)
MarkerIsLive ==
    txn # "failed" => MtmDDLStatement \in 0..Len(open)

(***************************************************************************)
(* A transaction of a backend that is distributed and has logged a DDL, a  *)
(* table copy or rows takes the two-phase commit: MtmTx.containsDML is     *)
(* set.  ROLLBACK TO SAVEPOINT takes the log back to the savepoint, and    *)
(* MtmRestoreSavepointContext takes containsDML back with it, to the value *)
(* MtmCreateSavepointContext has saved and no further.                     *)
(***************************************************************************)
WrittenMeansTwoPhase ==
    /\ x.isDistributed /\ ~x.isReplicated
    /\ txn \in {"command", "block"}
    /\ \E i \in DOMAIN wal : wal[i] \in {"D", "B", "W"}
    => x.containsDML

(***************************************************************************)
(* A table is in the hash of local tables (MtmMakeRelationLocal) only if   *)
(* mtm.local_tables has its row.  mtm_make_table_local enters it in shared *)
(* memory before it inserts the row, and nothing takes it out when the     *)
(* transaction is rolled back: the rows of the table are not sent until    *)
(* the node restarts and MtmLoadLocalTables reads the catalog.             *)
(***************************************************************************)
HashFollowsCatalog ==
    txn = "none" /\ "made_local" \in MtmLocalTables => catalog
=============================================================================
