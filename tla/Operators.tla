------------------------------ MODULE Operators ------------------------------
(***************************************************************************)
(* The operator database and the access levels of the players of one arena. *)
(* The list of operators (BOT_DATABASE::opList) is loaded from Operators.txt *)
(* when the program starts, changed by the commands of operators, and saved  *)
(* on request and when the program ends.  A player's access is a copy: it is *)
(* taken from the list when he enters or logs in, and it stays what it was   *)
(* while the list changes under it.                                          *)
(*                                                                         *)
(* Levels are the numbers of Operator_Level.  Owner stands for Owner..God,   *)
(* which differ in name only, and Unknown for every number above God: no     *)
(* case of gotCommand() and no line of Operators.txt takes it.  A password   *)
(* is NoPass or Pass, which its operator knows.                              *)
(***************************************************************************)
EXTENDS Integers

CONSTANTS Names,              \* the players who may be operators
          Nobody,             \* no player
          FirstFiles,         \* what Operators.txt may hold at first
          Asked,              \* the levels asked for with !addop, !editop, !limit
          MaxCommands         \* bound on the commands that change the list

Player == 0
Limited == 1
Moderator == 2
SuperModerator == 3
SysOp == 4
Owner == 5
Unknown == 6

Levels == Player..Unknown
Passwords == {"", "pass"}
Entries == [level : Levels, pass : Passwords]
Lists == UNION {[ns -> Entries] : ns \in SUBSET Names}

ASSUME OpAssumption ==
    /\ Nobody \notin Names
    /\ FirstFiles \subseteq Lists
    /\ Asked \subseteq Levels
    /\ MaxCommands \in Nat

VARIABLES
    opList,                   \* the list of operators
    opFile,                   \* Operators.txt
    operatorsUpdated,         \* the list is to be saved
    billerOnline,             \* the server checked the names of this session
    lowestLevel,              \* !limit
    allowLimited,             \* !ownbot
    limitedOwner,             \* who claimed the bot with !own
    here,                     \* the players in the arena
    access,                   \* their access levels
    given,                    \* history: who gave his password since he entered
    dropped,                  \* history: a change was made, or forgotten, unmarked
    commands                  \* counter: changes of the list

dbVars == <<opList, opFile, operatorsUpdated, dropped, commands>>
hostVars == <<billerOnline, lowestLevel>>
ownVars == <<allowLimited, limitedOwner>>
playerVars == <<here, access, given>>
opVars == <<dbVars, hostVars, ownVars, playerVars>>

\* gotOperator(): a line with a level that is no operator's is ignored.
Valid(file) == [n \in {m \in DOMAIN file : file[m].level \in Limited..Owner} |-> file[n]]

\* What the list `new` says overwrites what `old` says.
Over(new, old) ==
    [n \in DOMAIN new \cup DOMAIN old |-> IF n \in DOMAIN new THEN new[n] ELSE old[n]]

Removed(list, n) == [m \in DOMAIN list \ {n} |-> list[m]]

OpInit ==
    /\ opFile \in FirstFiles
    /\ opList = Valid(opFile)
    /\ operatorsUpdated = FALSE /\ dropped = FALSE /\ commands = 0
    /\ billerOnline = TRUE
    /\ lowestLevel \in {Player, Owner}
    /\ allowLimited = FALSE /\ limitedOwner = Nobody
    /\ here = {} /\ given = {}
    /\ access = [n \in Names |-> Player]
-----------------------------------------------------------------------------
\* Players

\* Mutant: the biller is not asked.
TrustedAnyway(n) == n \in DOMAIN opList /\ opList[n].pass = ""

\* handlePlayerEntering(): an operator without a password is trusted by his
\* name, if the biller has checked the name.
TrustedByName(n) == billerOnline /\ n \in DOMAIN opList /\ opList[n].pass = ""

Enter(n) ==
    /\ n \notin here
    /\ here' = here \cup {n}
    /\ access' = [access EXCEPT ![n] = IF TrustedByName(n) THEN opList[n].level ELSE Player]
    /\ UNCHANGED <<dbVars, hostVars, ownVars, given>>

\* Mutant of Leave: the claim is kept.
LeaveClaimed(n) ==
    /\ n \in here
    /\ here' = here \ {n}
    /\ access' = [access EXCEPT ![n] = Player]
    /\ given' = given \ {n}
    /\ UNCHANGED <<dbVars, hostVars, ownVars>>

\* handlePlayerLeaving(), killPlayer()
Leave(n) ==
    /\ n \in here
    /\ here' = here \ {n}
    /\ access' = [access EXCEPT ![n] = Player]
    /\ limitedOwner' = IF limitedOwner = n THEN Nobody ELSE limitedOwner
    /\ given' = given \ {n}
    /\ UNCHANGED <<dbVars, hostVars, allowLimited>>

\* resetArena()
ClearArena ==
    /\ here' = {}
    /\ access' = [n \in Names |-> Player]
    /\ given' = {}
    /\ allowLimited' = FALSE /\ limitedOwner' = Nobody

\* changeArena() of !go and of the password answer of a new session.  Only
\* the answer, LOG_BillerDown or another, says whether names are checked.
ChangeArena == ClearArena /\ UNCHANGED <<dbVars, hostVars>>
NewSession ==
    /\ ClearArena
    /\ billerOnline' \in BOOLEAN
    /\ UNCHANGED <<dbVars, lowestLevel>>
-----------------------------------------------------------------------------
\* gotCommand(): the limiter looks at the player's access and at the list, and
\* the switch at his access alone.
MayCommand(p, level) ==
    /\ p \in here
    /\ \/ access[p] >= lowestLevel
       \/ p \in DOMAIN opList /\ opList[p].level >= lowestLevel
    /\ access[p] \in level..Owner

\* validatePass(): an empty password accepts every word.
Accepts(op, word) == op.pass = "" \/ op.pass = word

\* The last part of !login, for a listed operator.
LoggedIn(p) ==
    /\ access' = [access EXCEPT ![p] = opList[p].level]
    /\ limitedOwner' = IF limitedOwner = p THEN Nobody ELSE limitedOwner
    /\ given' = IF opList[p].pass = "" THEN given ELSE given \cup {p}

\* !login of a listed operator with the right password.
Login(p, word) ==
    /\ MayCommand(p, Player)
    /\ p \in DOMAIN opList
    /\ billerOnline \/ ~Accepts(opList[p], "")
    /\ Accepts(opList[p], word)
    /\ LoggedIn(p)
    /\ UNCHANGED <<dbVars, hostVars, allowLimited, here>>

Logout(p) ==
    /\ MayCommand(p, Moderator)
    /\ access' = [access EXCEPT ![p] = Player]
    /\ UNCHANGED <<dbVars, hostVars, ownVars, here, given>>

\* revokeAccess()
Revoked(level) == [n \in Names |-> IF access[n] <= level THEN Player ELSE access[n]]

OwnBot(p, on) ==
    /\ MayCommand(p, SysOp)
    /\ allowLimited' = on
    /\ access' = IF on THEN access ELSE Revoked(Limited)
    /\ UNCHANGED <<dbVars, hostVars, limitedOwner, here, given>>

Own(p) ==
    /\ allowLimited
    /\ MayCommand(p, Player)
    /\ limitedOwner = Nobody /\ access[p] = Player
    /\ access' = [access EXCEPT ![p] = Limited]
    /\ limitedOwner' = p
    /\ UNCHANGED <<dbVars, hostVars, allowLimited, here, given>>

\* !give to x, or to nobody who is here: whoever was Limited loses it first.
Give(p, x) ==
    /\ allowLimited
    /\ MayCommand(p, Limited)
    /\ limitedOwner' = Nobody
    /\ access' = [n \in Names |-> IF n = x /\ x \in here /\ Revoked(Limited)[x] = Player
                                  THEN Limited ELSE Revoked(Limited)[n]]
    /\ UNCHANGED <<dbVars, hostVars, allowLimited, here, given>>

Limit(p, level) ==
    /\ MayCommand(p, SuperModerator)
    /\ LET limit == IF level > Owner THEN Owner ELSE level
       IN  limit <= access[p] /\ lowestLevel' = limit
    /\ UNCHANGED <<dbVars, billerOnline, ownVars, playerVars>>
-----------------------------------------------------------------------------
\* Commands that change the list.  addOperator() and removeOperator() mark it,
\* setAccess() and setPassword() do not.

Change(list, marked) ==
    /\ commands < MaxCommands
    /\ commands' = commands + 1
    /\ opList' = list
    /\ operatorsUpdated' = (operatorsUpdated \/ marked)
    /\ dropped' = (dropped \/ (~marked /\ ~operatorsUpdated /\ list # opList))
    /\ UNCHANGED <<opFile, hostVars, ownVars, playerVars>>

\* The level of !addop: one's own and higher ones become the one below.
Capped(p, level) ==
    IF level >= access[p] /\ access[p] < Owner THEN access[p] - 1 ELSE level
AddOp(p, n, level, pass) ==
    /\ MayCommand(p, SuperModerator)
    /\ n \notin DOMAIN opList
    /\ Change(Over([m \in {n} |-> [level |-> Capped(p, level), pass |-> pass]], opList), TRUE)

\* Mutant: the new level is not looked at.
MayEditAnyway(p, n, level) == access[p] < Owner => opList[n].level < access[p]

\* What p may make of the operator n with !editop.
MayEdit(p, n, level) ==
    access[p] < Owner => opList[n].level < access[p] /\ level <= access[p]

EditOp(p, n, level, pass) ==
    /\ MayCommand(p, SuperModerator)
    /\ n \in DOMAIN opList
    /\ MayEdit(p, n, level)
    /\ Change([opList EXCEPT ![n] = [level |-> level, pass |-> pass]], FALSE)

\* Mutant of DeleteOp: the list is not marked.
DeleteOpUnmarked(p, n) ==
    /\ MayCommand(p, SuperModerator)
    /\ n \in DOMAIN opList /\ n # p
    /\ Change(Removed(opList, n), FALSE)

DeleteOp(p, n) ==
    /\ MayCommand(p, SuperModerator)
    /\ n \in DOMAIN opList /\ n # p
    /\ access[p] >= Owner \/ opList[n].level < access[p]
    /\ Change(Removed(opList, n), TRUE)

\* !setlogin of a listed operator.
SetLogin(p, pass) ==
    /\ MayCommand(p, Moderator)
    /\ p \in DOMAIN opList
    /\ Change([opList EXCEPT ![p].pass = pass], FALSE)
-----------------------------------------------------------------------------
\* Operators.txt

\* saveOperators(): nothing is written of a list that is not marked, or when
\* the file refuses to be overwritten.
SaveOperators ==
    \/ UNCHANGED <<opFile, operatorsUpdated, dropped>>
    \/ /\ operatorsUpdated
       /\ opFile' = opList
       /\ operatorsUpdated' = FALSE /\ dropped' = FALSE

Save(p) ==
    /\ MayCommand(p, Owner)
    /\ SaveOperators
    /\ UNCHANGED <<opList, commands, hostVars, ownVars, playerVars>>

\* loadOperators2(): what the file says of an operator overwrites the list,
\* which keeps the operators of whom it says nothing.
Read(p) ==
    /\ MayCommand(p, Owner)
    /\ opList' = Over(Valid(opFile), opList)
    /\ operatorsUpdated' = FALSE
    /\ dropped' = (dropped \/ operatorsUpdated)
    /\ UNCHANGED <<opFile, commands, hostVars, ownVars, playerVars>>

\* main() ends, saving or not (a crash), and starts again with loadOperators().
Restart ==
    /\ opFile' \in {opFile} \cup (IF operatorsUpdated THEN {opList} ELSE {})
    /\ opList' = Valid(opFile')
    /\ operatorsUpdated' = FALSE /\ dropped' = FALSE
    /\ billerOnline' \in BOOLEAN
    /\ lowestLevel' \in {Player, Owner}
    /\ ClearArena
    /\ UNCHANGED commands
-----------------------------------------------------------------------------
Command(p) ==
    \/ \E word \in Passwords : Login(p, word)
    \/ Logout(p)
    \/ \E on \in BOOLEAN : OwnBot(p, on)
    \/ Own(p)
    \/ \E x \in Names \cup {Nobody} : Give(p, x)
    \/ \E level \in Asked : Limit(p, level)
    \/ \E n \in Names, pass \in Passwords :
          \/ \E level \in Asked : AddOp(p, n, level, pass)
          \/ \E level \in Asked : EditOp(p, n, level, pass)
    \/ \E n \in Names : DeleteOp(p, n)
    \/ \E pass \in Passwords : SetLogin(p, pass)
    \/ Save(p)
    \/ Read(p)

OpNext ==
    \/ \E n \in Names : Enter(n) \/ Leave(n) \/ Command(n)
    \/ ChangeArena
    \/ NewSession
    \/ Restart

OpSpec == OpInit /\ [][OpNext]_opVars
-----------------------------------------------------------------------------
\* Properties

OpTypeOK ==
    /\ opList \in Lists /\ opFile \in Lists
    /\ operatorsUpdated \in BOOLEAN /\ dropped \in BOOLEAN
    /\ commands \in 0..MaxCommands
    /\ billerOnline \in BOOLEAN /\ allowLimited \in BOOLEAN
    /\ lowestLevel \in Player..Owner
    /\ limitedOwner \in here \cup {Nobody}
    /\ here \subseteq Names /\ given \subseteq here
    /\ access \in [Names -> Levels]
    /\ \A n \in Names \ here : access[n] = Player

\* "Disabling operator accounts without passwords until biller is restored"
\* (clientprot.cpp:3053): in a session whose names nobody checked, whoever has
\* the powers of an operator has given a password, whatever happened to the
\* list and to his password before and after.
NamesAreChecked ==
    billerOnline \/ \A n \in here : access[n] >= Moderator => n \in given

Held == {opList[n].level : n \in DOMAIN opList} \cup {access[n] : n \in here}
            \cup {opFile[n].level : n \in DOMAIN opFile}

\* Operators below Owner cannot, alone or together, now or after a restart,
\* make anyone more than the highest of them is.
TopNeverRises ==
    [][\A level \in Held' :
          level > Limited /\ (\A other \in Held : other < level)
              => \E p \in here : access[p] = Owner]_opVars

\* What is not marked to be saved is saved: the file has nobody who was
\* removed, and it differs from the list only by a change of a level or a
\* password that was not marked and by what !read made of the mark.
UnmarkedIsSaved ==
    ~operatorsUpdated =>
        /\ DOMAIN Valid(opFile) \subseteq DOMAIN opList
        /\ ~dropped => Valid(opFile) = Valid(opList)
=============================================================================
