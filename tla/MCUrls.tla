------------------------------- MODULE MCUrls -------------------------------
(* An instance of Urls for TLC. *)
EXTENDS Urls

Existing(alias, splash, protected, limit) ==
    [code |-> "a", alias |-> alias, archived |-> FALSE, private |-> FALSE,
     splash |-> splash, protected |-> protected, limit |-> limit, meta |-> FALSE,
     channels |-> {}, clicks |-> 0, uniques |-> 0, impressions |-> 0, seen |-> {}]

\* A direct URL with an alias and a limit, or a protected one with a splash page.
FirstRows == {Existing("b", FALSE, FALSE, 1), Existing(NoSlug, TRUE, TRUE, 0)}

\* An alias; none any more, and archived; a code and a count.
Giving(sets, alias) ==
    [sets |-> sets, to |-> [Existing(alias, FALSE, FALSE, 0) EXCEPT !.code = "b", !.archived = TRUE,
                                                                    !.uniques = 2]]
SomeEdits == {Giving({"alias"}, "b"), Giving({"alias", "archived"}, NoSlug),
              Giving({"code", "uniques"}, NoSlug)}

\* Two requests of one address and one of another.
Addresses == <<"ip1", "ip1", "ip2">>

\* What is used together: counters, whole-row saves, slugs, channels.
Mixes == {<<"visit", "visit", "update">>,
          <<"visit", "bulk", "confirm">>,
          <<"visit", "attach", "unlock">>,
          <<"visit", "attach", "drop">>,
          <<"visit", "update", "delete">>,
          <<"create", "create", "confirm">>,
          <<"create", "update", "drop">>,
          <<"create", "attach", "delete">>}
=============================================================================
