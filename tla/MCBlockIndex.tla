---------------------------- MODULE MCBlockIndex ----------------------------
(* Instances of BlockIndex for TLC: one or two configurations of the       *)
(* repository (its name and URI), and the settings that change what a      *)
(* bootstrap does with the files of an earlier one.                        *)
EXTENDS BlockIndex

Settings(repositories, materialized, limited) ==
    [repository : repositories, materialize : materialized, limit : limited]

\* Both settings that change what is kept, one at a time.
EachSetting == Settings(Repositories, BOOLEAN, {FALSE}) \cup Settings(Repositories, {FALSE}, {TRUE})

MaterializedOrNot == Settings(Repositories, BOOLEAN, {FALSE})
SeriesOnly == Settings(Repositories, {FALSE}, {FALSE})
=============================================================================
