---------------------------- MODULE ScoreTables ----------------------------
(***************************************************************************)
(* The tables the server builds (table.go) and what the pages make of them *)
(* (Scoreboard.vue with TeamRow.vue and ChallengeCell.vue, TeamsPage.vue,  *)
(* ChallegesPage.vue): groups of challenges, columns and cells, ranking,   *)
(* and the graph of scores.                                                *)
(*                                                                         *)
(* One window shows one of the pages and receives messages while teams     *)
(* solve challenges and challenges are added to the event.  A message is   *)
(* built in one step: a flag found in the meantime is in the next one.     *)
(* Dates are counted; a challenge that is not solved has the date 0, which *)
(* is also what `new Date(null)` gives.  Flags can share a date: the page  *)
(* compares milliseconds, and the database keeps less.                     *)
(*                                                                         *)
(* An entry of fd.challenges is known by its place in that list.  A        *)
(* challenge can have several: AddChallenge looks for its tag among those  *)
(* the event was created with, and does not add to them.                   *)
(***************************************************************************)
EXTENDS Integers, Sequences, FiniteSets, SequencesExt

CONSTANTS
    Teams,
    MaxEntries, \* bound: entries the list ever gets
    TagOf,      \* the challenge of an entry
    CategoryOf, \* of an entry
    PointsOf,   \* of an entry
    MaxSolves   \* bound: flags found

ASSUME TeamsAssumption == IsFiniteSet(Teams)
ASSUME ListAssumption == MaxEntries \in Nat \ {0}

Entries == 1..MaxEntries
Tags == {TagOf[c] : c \in Entries}

ASSUME PointsAssumption == \A c \in Entries : PointsOf[c] \in Nat

(* fd.challenges when it has n entries. *)
Listed(n) == [i \in 1..n |-> i]

VARIABLES
    clock,      \* the time, as dates tell it
    solvedAt,   \* CompletedAt by team and challenge, 0 for nil
    size,       \* fd.challenges is Listed(size)
    page,       \* which page the window shows
    challenges, \* Scoreboard: the columns, by category
    teams,      \* Scoreboard and TeamsPage: the rows
    traces,     \* TeamsPage: the lines of the graph
    groups,     \* ChallegesPage: challengesFromAmigo
    seen        \* the dates and the size of the message shown

viewVars == <<challenges, teams, traces, groups, seen>>
vars == <<clock, solvedAt, size, page, challenges, teams, traces, groups, seen>>

-----------------------------------------------------------------------------
(* The algorithms. *)

(* A loop over a sequence is a function of how far it has come. *)

PrefixSums(s) ==
    LET sum[i \in 0..Len(s)] == IF i = 0 THEN 0 ELSE sum[i-1] + s[i]
    IN  sum
SumOf(s) == PrefixSums(s)[Len(s)]

(* The elements at the positions in I, in their order. *)
PickPrefixes(s, I) ==
    LET picked[i \in 0..Len(s)] ==
          IF i = 0 THEN <<>>
          ELSE IF i \in I THEN Append(picked[i-1], s[i]) ELSE picked[i-1]
    IN  picked
Pick(s, I) == PickPrefixes(s, I)[Len(s)]

(* A stable sort, as sort.SliceStable and Array.sort are; key[i] is the    *)
(* number by which s[i] is compared.                                       *)
Before(key, i) == {j \in DOMAIN key : key[j] < key[i] \/ (key[j] = key[i] /\ j <= i)}
Sorting(key) ==
    [k \in DOMAIN key |-> CHOOSE i \in DOMAIN key : Cardinality(Before(key, i)) = k]
StableSort(s, key) == [k \in DOMAIN s |-> s[Sorting(key)[k]]]

(* getChallengeCategories: in the order of their first challenge. *)
CategoryPrefixes(list) ==
    LET cats[i \in 0..Len(list)] ==
          IF i = 0 THEN <<>>
          ELSE IF Contains(cats[i-1], CategoryOf[list[i]]) THEN cats[i-1]
          ELSE Append(cats[i-1], CategoryOf[list[i]])
    IN  cats
GetChallengeCategories(list) == CategoryPrefixes(list)[Len(list)]

OfCategory(list, cat) == {i \in DOMAIN list : CategoryOf[list[i]] = cat}

(* The comparison by points of initTeams and of sortChallenges. *)
ByPoints(list) == StableSort(list, [i \in DOMAIN list |-> PointsOf[list[i]]])

(* The columns of initTeams: the challenges of each category by points. *)
Columns(list) ==
    LET cats == GetChallengeCategories(list) IN
    [i \in DOMAIN cats |->
       [category |-> cats[i],
        chals |-> ByPoints(Pick(list, OfCategory(list, cats[i])))]]

(* get_challenges of Scoreboard: the columns in a row. *)
RowPrefixes(full) ==
    LET row[i \in 0..Len(full)] ==
          IF i = 0 THEN <<>> ELSE row[i-1] \o full[i].chals
    IN  row
GetChallenges(full) == RowPrefixes(full)[Len(full)]

(* Mutation: the cells follow the list, not the columns. *)
TeamInfoUnsorted(t, dates, cols) ==
    LET cs == Listed(size) IN
    [id |-> t,
     tpoints |-> SumOf([j \in DOMAIN cs |-> IF dates[TagOf[cs[j]]] = 0
                                            THEN 0 ELSE PointsOf[cs[j]]]),
     completions |-> [j \in DOMAIN cs |-> dates[TagOf[cs[j]]]],
     points |-> [j \in DOMAIN cs |-> PointsOf[cs[j]]]]

TeamInfo(t, dates, cols) ==
    LET cs == GetChallenges(cols) IN
    [id |-> t,
     tpoints |-> SumOf([j \in DOMAIN cs |-> IF dates[TagOf[cs[j]]] = 0
                                            THEN 0 ELSE PointsOf[cs[j]]]),
     completions |-> [j \in DOMAIN cs |-> dates[TagOf[cs[j]]]],
     points |-> [j \in DOMAIN cs |-> PointsOf[cs[j]]]]

(* The rows of initTeams, in the order in which GetTeams ranges over its   *)
(* map.                                                                    *)
Rows(order, dates, cols) ==
    [i \in DOMAIN order |-> TeamInfo(order[i], dates[order[i]], cols)]

(* What is painted: the cells of a row, in the order of its completions,   *)
Cells(row) == [j \in DOMAIN row.completions |-> row.completions[j] # 0]

(* under the challenges of the second line of the header.                  *)
Header(cols) == GetChallenges(cols)

(* Mutation: the operands of the comparison are swapped. *)
ByScoreUp(rows) == StableSort(rows, [i \in DOMAIN rows |-> rows[i].tpoints])

(* The sort in receiveMsg of Scoreboard and of TeamsPage. *)
ByScore(rows) == StableSort(rows, [i \in DOMAIN rows |-> -rows[i].tpoints])

(* Mutation: only the dates are moved. *)
SortSolvedDates(row) ==
    [row EXCEPT !.completions = StableSort(@, @)]

(* sortSolvedData, one team: dates and points, by date. *)
SortSolvedData(row) ==
    LET list == StableSort([j \in DOMAIN row.completions |->
                              [date |-> row.completions[j], points |-> row.points[j]]],
                           row.completions)
    IN  [row EXCEPT !.completions = [j \in DOMAIN list |-> list[j].date],
                    !.points = [j \in DOMAIN list |-> list[j].points]]

CumulativeSum(arr) == [i \in DOMAIN arr |-> SumOf(SubSeq(arr, 1, i))]

(* scoreGraph, one team; the flags not found are left out. *)
Found(row) == {j \in DOMAIN row.completions : row.completions[j] # 0}
Trace(row) ==
    [name |-> row.id,
     x |-> Pick(row.completions, Found(row)),
     y |-> CumulativeSum(Pick(row.points, Found(row)))]

(* Mutation: the points are sorted downwards. *)
SortChallengesDown(values) ==
    [i \in DOMAIN Columns(values) |->
       [Columns(values)[i] EXCEPT
          !.chals = StableSort(@, [j \in DOMAIN @ |-> -PointsOf[@[j]]])]]

(* sortChallenges: an object keeps its keys in the order they were added. *)
AddToGroup(gs, c) ==
    IF \E i \in DOMAIN gs : gs[i].category = CategoryOf[c]
    THEN [i \in DOMAIN gs |->
            IF gs[i].category = CategoryOf[c]
            THEN [category |-> gs[i].category, chals |-> Append(gs[i].chals, c)]
            ELSE gs[i]]
    ELSE Append(gs, [category |-> CategoryOf[c], chals |-> <<c>>])
GroupPrefixes(values) ==
    LET gs[i \in 0..Len(values)] ==
          IF i = 0 THEN <<>> ELSE AddToGroup(gs[i-1], values[i])
    IN  gs
SortChallenges(values) ==
    LET added == GroupPrefixes(values)[Len(values)] IN
    [i \in DOMAIN added |->
       [category |-> added[i].category, chals |-> ByPoints(added[i].chals)]]

-----------------------------------------------------------------------------
(* The server and the window. *)

Init ==
    /\ clock = 0
    /\ solvedAt = [t \in Teams |-> [tag \in Tags |-> 0]]
    /\ size \in Entries
    /\ page \in {"scoreboard", "teams", "challenges"}
    /\ challenges = <<>>
    /\ teams = <<>>
    /\ traces = {}
    /\ groups = <<>>
    /\ seen = [dates |-> solvedAt, size |-> 0]

Solves == {s \in Teams \X Tags : solvedAt[s[1]][s[2]] # 0}

(* VerifyFlag.  AddChallenge gives a team its flag before the list has the *)
(* challenge.                                                              *)
Solve(t, tag) ==
    /\ Cardinality(Solves) < MaxSolves
    /\ solvedAt[t][tag] = 0
    /\ clock' \in {clock, clock + 1} \ {0}
    /\ solvedAt' = [solvedAt EXCEPT ![t][tag] = clock']
    /\ UNCHANGED <<size, page, viewVars>>

(* RunFrontendData takes a batch of any number of challenges. *)
AddChallenges ==
    /\ size' \in size+1..MaxEntries
    /\ UNCHANGED <<clock, solvedAt, page, viewVars>>

Now == [dates |-> solvedAt, size |-> size]

(* receiveMsg of Scoreboard *)
ReceiveScoreboard(order) ==
    /\ page = "scoreboard"
    /\ challenges' = Columns(Listed(size))
    /\ teams' = ByScore(Rows(order, solvedAt, Columns(Listed(size))))
    /\ seen' = Now
    /\ UNCHANGED <<clock, solvedAt, size, page, traces, groups>>

(* receiveMsg of TeamsPage: the new lines join those already drawn.  Their *)
(* order is left out.                                                      *)
ReceiveTeams(order) ==
    LET rows == ByScore(Rows(order, solvedAt, Columns(Listed(size))))
        sorted == [i \in DOMAIN rows |-> SortSolvedData(rows[i])] IN
    /\ page = "teams"
    /\ teams' = sorted
    /\ traces' = traces \cup {Trace(sorted[i]) : i \in DOMAIN sorted}
    /\ seen' = Now
    /\ UNCHANGED <<clock, solvedAt, size, page, challenges, groups>>

(* receiveMsg of ChallegesPage *)
ReceiveChallenges ==
    /\ page = "challenges"
    /\ groups' = SortChallenges(Listed(size))
    /\ seen' = Now
    /\ UNCHANGED <<clock, solvedAt, size, page, challenges, teams, traces>>

Next ==
    \/ \E t \in Teams, tag \in Tags : Solve(t, tag)
    \/ AddChallenges
    \/ \E order \in SetToSeqs(Teams) : ReceiveScoreboard(order) \/ ReceiveTeams(order)
    \/ ReceiveChallenges

Spec == Init /\ [][Next]_vars

-----------------------------------------------------------------------------
(* Properties. *)

(* When t had solved the challenge of an entry, in the message shown, and  *)
(* the entries whose challenge it had solved.                              *)
DateOf(t, c) == seen.dates[t][TagOf[c]]
Solved(t) == {c \in 1..seen.size : DateOf(t, c) # 0}

(* The points of the entries in S: entry c has the points <<c, 1>> to      *)
(* <<c, PointsOf[c]>>.                                                     *)
PointsIn(S) == Cardinality(UNION {{c} \X (1..PointsOf[c]) : c \in S})
Score(t) == PointsIn(Solved(t))

(* The j-th cell of a row of the scoreboard is about the entry of the      *)
(* j-th column: TeamRow paints the cells without looking at the columns,   *)
(* so the server has to build both in the same order.                      *)
ColumnsAligned ==
    page = "scoreboard" =>
        LET cols == Header(challenges) IN
        \A i \in DOMAIN teams :
            Cells(teams[i]) = [j \in DOMAIN cols |-> cols[j] \in Solved(teams[i].id)]

(* Scoreboard and teams page list every team once, by the points of the    *)
(* entries it has solved: a challenge that is listed twice has two columns *)
(* and counts twice (initTeams, receiveMsg).                               *)
RankedByScore ==
    /\ \A i, j \in DOMAIN teams :
          i < j => /\ teams[i].id # teams[j].id
                   /\ Score(teams[i].id) >= Score(teams[j].id)
    /\ teams # <<>> => {teams[i].id : i \in DOMAIN teams} = Teams

(* Every team that is listed on the teams page has a line in the graph     *)
(* that goes forward in time and ends at its score, although dates and     *)
(* points come in the order of the columns and are sorted together.  Flags *)
(* of one date come one after the other; the last of them has the points   *)
(* of all up to that date.                                                 *)
GraphEndsAtScore ==
    page = "teams" =>
        \A i \in DOMAIN teams :
            \E tr \in traces :
                /\ tr.name = teams[i].id
                /\ Len(tr.x) = Cardinality(Solved(tr.name))
                /\ \A j, k \in DOMAIN tr.x : j < k => tr.x[j] <= tr.x[k]
                /\ \A j \in DOMAIN tr.x :
                      (\A k \in DOMAIN tr.x : j < k => tr.x[j] # tr.x[k])
                        => tr.y[j] = PointsIn({c \in Solved(tr.name) :
                                                 DateOf(tr.name, c) <= tr.x[j]})

(* The groups of the challenges page, which the page sorts, are the groups *)
(* of columns of the scoreboard, which the server sorts: same categories,  *)
(* same entries, same order, also for equal points and added batches.   *)
GroupsAgree ==
    page = "challenges" => groups = Columns(Listed(seen.size))
=============================================================================
