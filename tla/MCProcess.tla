------------------------------ MODULE MCProcess ------------------------------
(* Instances of Process for TLC: one worker besides main and the thread that *)
(* accepts, every short configuration file, and a few that are complete.     *)
EXTENDS Process

CONSTANT c1

MCConns == {c1}

MCSections == {"", "master", "default", "user"}
MCNames == {"server", "local", "user", "pat"}
MCValues == {"", "addr", "host:7", "pat", "info"}

Section(s) == [kind |-> "section", sec |-> s, name |-> "user", value |-> ""]
Pair(n, v) == [kind |-> "pair", sec |-> "", name |-> n, value |-> v]
Other == [kind |-> "other", sec |-> "", name |-> "user", value |-> ""]
Long == [kind |-> "long", sec |-> "", name |-> "user", value |-> ""]

\* Short files of these lines: sections left and opened again, values given
\* twice, pairs in front of every section, and lines that are too long.
Lines == {Section("user"), Section(""), Pair("pat", "info"), Pair("pat", ""),
          Other, Long}
ShortFiles == UNION {[1 .. n -> Lines] : n \in 0 .. 4}

Addresses(server) ==
  <<Section("master"), Pair("server", server), Pair("local", "addr")>>
Default == <<Section("default"), Pair("user", "pat")>>
Users == <<Section("user"), Pair("pat", "info"), Pair("pat", "")>>

\* Complete files: everything there, a server's port of one digit, the users
\* behind a line that is too long.
MCFiles ==
  ShortFiles \union
  {Addresses("addr") \o Default \o Users,
   Addresses("host:7") \o Default \o Users,
   Addresses("addr") \o Default \o <<Long>> \o Users}

Complete == {Addresses("addr") \o Default \o Users}

MCRefused == {"host:7"}

\* One word, two words in one read, and the end of the input.
MCCommands == {<<"quit">>, <<"other", "quit">>, <<>>}
=============================================================================
