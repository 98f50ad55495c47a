------------------------------ MODULE Seeding ------------------------------
(***************************************************************************)
(* How the tables the world is loaded from come to be filled.  Every start *)
(* of the server migrates the schema, seeds the countries that are not in  *)
(* the database, and only then loads and serves the world; scripts run by  *)
(* hand fill the tables of history.  A process may be killed at any point, *)
(* and what it committed and what it downloaded stay.                      *)
(*                                                                         *)
(* Of a country's archive only this matters: whether it is on disk, whole  *)
(* or truncated.  Of the parsed rows: whether any of them is a place.      *)
(***************************************************************************)
EXTENDS Integers, FiniteSets

CONSTANTS
  Countries, \* COUNTRIES_TO_FETCH
  Deserted,  \* those in whose archive no row is of a kind that is kept
  Attempts,  \* of a migration, 5 in the code
  Kinds,     \* scripts of history: among "weather", "wind" and "astronomy"
  Stations,  \* the places the scripts select
  MaxKills   \* bound: kills while an archive is being written

ASSUME SeedingAssumption ==
  /\ Countries # {} /\ Deserted \subseteq Countries
  /\ Attempts \in Nat \ {0} /\ MaxKills \in Nat
  /\ Kinds \subseteq {"weather", "wind", "astronomy"}

VARIABLES
  server,  \* what the server is doing
  attempt, \* of the migration
  todo,    \* countries_to_fetch of this start that are not done
  file,    \* [Countries -> "none", "truncated" or "whole"]: the archives on disk
  placed,  \* [Countries -> copies of its locations committed]
  linked,  \* countries whose connections are committed
  script,  \* [Kinds -> the stations left, and whether it runs]
  rows,    \* [Kinds -> [Stations -> copies of its history committed]]
  halved,  \* history: countries cut between their two commits
  kills    \* kills while an archive was being written, up to MaxKills

vars == <<server, attempt, todo, file, placed, linked, script, rows, halved, kills>>
tables == <<placed, linked>>
history == <<script, rows>>

Seeds == {"fetch", "parse", "connect"}
Idle == [on |-> FALSE, left |-> {}]

TypeOK ==
  /\ server \in {"down", "migrate", "check", "load", "serve"} \cup Seeds
  /\ attempt \in 1..Attempts /\ todo \subseteq Countries
  /\ file \in [Countries -> {"none", "truncated", "whole"}]
  /\ placed \in [Countries -> 0..2] /\ linked \subseteq Countries
  /\ script \in [Kinds -> [on : BOOLEAN, left : SUBSET Stations]]
  /\ rows \in [Kinds -> [Stations -> 0..2]]
  /\ halved \subseteq Countries /\ kills \in 0..MaxKills
-----------------------------------------------------------------------------
\* The start of the server.

Start ==
  /\ server = "down" /\ server' = "migrate" /\ attempt' = 1
  /\ UNCHANGED <<todo, file, tables, history, halved, kills>>

\* A migration is tried again after a pause, and the last failure ends the start.
Migrate(ok) ==
  /\ server = "migrate"
  /\ server' = IF ok THEN "check" ELSE IF attempt = Attempts THEN "down" ELSE "migrate"
  /\ attempt' = IF ~ok /\ attempt < Attempts THEN attempt + 1 ELSE 1
  /\ UNCHANGED <<todo, file, tables, history, halved, kills>>

\* Variant: a country is there once its connections are.
PresentWhenLinked == linked

\* A country is there once one of its locations is.
Present == {c \in Countries : placed[c] > 0}

Check ==
  /\ server = "check"
  /\ todo' = Countries \ Present
  /\ server' = IF Countries \ Present = {} THEN "load" ELSE "fetch"
  /\ UNCHANGED <<attempt, file, tables, history, halved, kills>>

\* The next one of the list, whose order is of no consequence here.
Country == CHOOSE c \in todo : TRUE

\* Variant: a country without places ends the seeding.
EndAtDeserted ==
  /\ todo' = todo \ {Country}
  /\ server' = IF todo = {Country} \/ Country \in Deserted THEN "load" ELSE "fetch"

\* On to the next country, or to the world when this was the last.
NextCountry ==
  /\ todo' = todo \ {Country}
  /\ server' = IF todo = {Country} THEN "load" ELSE "fetch"

\* download_file() takes what is on disk for the archive.
Fetch ==
  /\ server = "fetch" /\ server' = "parse"
  /\ file' = IF file[Country] = "none" THEN [file EXCEPT ![Country] = "whole"] ELSE file
  /\ UNCHANGED <<attempt, todo, tables, history, halved, kills>>

FetchFails ==
  /\ server = "fetch" /\ file[Country] = "none" /\ server' = "down"
  /\ UNCHANGED <<attempt, todo, file, tables, history, halved, kills>>

\* Variant: an archive without places is an error.
EmptyIsError(c) == file[c] = "whole" /\ c \notin Deserted

Readable(c) == file[c] = "whole"

\* A truncated archive is an error that ends the start.  Otherwise the locations of
\* the country are inserted and committed in one transaction.
Parse ==
  /\ server = "parse"
  /\ IF ~Readable(Country) THEN server' = "down" /\ UNCHANGED <<todo, placed>>
     ELSE IF Country \in Deserted THEN NextCountry /\ UNCHANGED placed
     ELSE /\ placed' = [placed EXCEPT ![Country] = IF @ < 2 THEN @ + 1 ELSE 2]
          /\ server' = "connect" /\ UNCHANGED todo
  /\ UNCHANGED <<attempt, file, linked, history, halved, kills>>

\* And its connections in another one.
Connect ==
  /\ server = "connect"
  /\ linked' = linked \cup {Country}
  /\ NextCountry
  /\ UNCHANGED <<attempt, file, placed, history, halved, kills>>

Load ==
  /\ server = "load" /\ server' = "serve"
  /\ UNCHANGED <<attempt, todo, file, tables, history, halved, kills>>

\* The process is killed, or an error no handler expects ends it.
Kill ==
  /\ server # "down" /\ server' = "down"
  /\ halved' = IF server = "connect" THEN halved \cup {Country} ELSE halved
  /\ UNCHANGED <<attempt, todo, file, tables, history, kills>>

\* Killed while the archive is being written.
KillInWrite ==
  /\ server = "fetch" /\ file[Country] = "none" /\ kills < MaxKills
  /\ server' = "down" /\ kills' = kills + 1
  /\ file' = [file EXCEPT ![Country] = "truncated"]
  /\ UNCHANGED <<attempt, todo, tables, history, halved>>
-----------------------------------------------------------------------------
\* The scripts of history: the table is emptied, then filled station by station
\* (astronomy: all stations in one transaction).

Cleared(k) == [s \in Stations |-> 0]

\* The places a script works on: none while no country is seeded.
Selected == IF \E c \in Countries : placed[c] > 0 THEN Stations ELSE {}

Begin(k) ==
  /\ ~script[k].on
  /\ rows' = [rows EXCEPT ![k] = Cleared(k)]
  /\ script' = [script EXCEPT ![k] = [on |-> TRUE, left |-> Selected]]
  /\ UNCHANGED <<server, attempt, todo, file, tables, halved, kills>>

\* S is done with, and the rows of those that came are committed.
Stored(k, S, came) ==
  /\ script' = [script EXCEPT ![k].left = @ \ S]
  /\ rows' = [rows EXCEPT ![k] = [s \in Stations |->
                IF s \in came /\ rows[k][s] < 2 THEN rows[k][s] + 1 ELSE rows[k][s]]]
  /\ UNCHANGED <<server, attempt, todo, file, tables, halved, kills>>

\* The rows of a station are committed, unless its source does not answer.
StoreStation(k) ==
  /\ script[k].on /\ k # "astronomy"
  /\ \E s \in script[k].left : \E came \in SUBSET {s} : Stored(k, {s}, came)

\* Astronomy is computed, and committed for all places together.
StoreAll(k) ==
  /\ script[k].on /\ k = "astronomy" /\ script[k].left # {}
  /\ Stored(k, script[k].left, script[k].left)

\* The script ends, or is killed.
End(k) ==
  /\ script[k].on
  /\ script' = [script EXCEPT ![k] = Idle]
  /\ UNCHANGED <<server, attempt, todo, file, tables, rows, halved, kills>>

Script(k) == Begin(k) \/ StoreStation(k) \/ StoreAll(k) \/ End(k)

Init ==
  /\ server = "down" /\ attempt = 1 /\ todo = {}
  /\ file = [c \in Countries |-> "none"]
  /\ placed = [c \in Countries |-> 0] /\ linked = {}
  /\ script = [k \in Kinds |-> Idle]
  /\ rows = [k \in Kinds |-> [s \in Stations |-> 0]]
  /\ halved = {} /\ kills = 0

Next ==
  \/ Start
  \/ \E ok \in BOOLEAN : Migrate(ok)
  \/ Check \/ Fetch \/ FetchFails \/ Parse \/ Connect \/ Load
  \/ Kill \/ KillInWrite
  \/ \E k \in Kinds : Script(k)

\* An operator starts the server again whenever it is down; a database and a source
\* that are tried again and again answer at last.
Fairness ==
  /\ WF_vars(Start) /\ SF_vars(Migrate(TRUE)) /\ SF_vars(Check) /\ SF_vars(Load)
  /\ \A c \in Countries : LET Now == todo # {} /\ Country = c
                          IN  /\ SF_vars(Now /\ Fetch) /\ SF_vars(Now /\ Parse)
                              /\ SF_vars(Now /\ Connect)

Spec == Init /\ [][Next]_vars /\ Fairness
-----------------------------------------------------------------------------
\* run() finds the countries to skip by their locations, which it commits first: no
\* order of kills, failures and restarts seeds the locations of a country twice.  Nor
\* does a script that is killed and run again store the history of a place twice.
PlacedOnce ==
  /\ \A c \in Countries : placed[c] <= 1
  /\ \A k \in Kinds, s \in Stations : rows[k][s] <= 1

\* A country is served without its connections only if it was cut between its two
\* commits, once; later starts skip it and it stays so.
LinkedUnlessHalved ==
  server \in {"load", "serve"} =>
    \A c \in Countries \ Deserted : placed[c] = 1 /\ (c \in linked \/ c \in halved)

\* However often it is killed or its sources fail, the server comes up at last, and
\* only a truncated archive, which download_file takes for the whole one, keeps it
\* down for ever.
ComesUp == []<>(server = "serve" \/ \E c \in Countries : file[c] = "truncated")
=============================================================================
