------------------------------ MODULE MCLoader ------------------------------
(* TLC instances of Loader.                                                *)
EXTENDS Loader, TLC

Load(d, dyn, cfg) == [dir |-> d, dyn |-> dyn, cfg |-> cfg]

(* A reload of a module of either directory, one without a reload that may *)
(* find either, and one that is named without a directory and has a field  *)
(* of configuration.                                                       *)
MCRequest == {Load(d, TRUE, <<>>) : d \in Dir}
             \cup {Load(CHOOSE d \in Dir : d # Home, FALSE, <<>>),
                   Load(None, TRUE, <<"a">>)}

(* The configuration is a text with a comma in it.                         *)
MCCsv == {Load(None, dyn, <<"a", "b">>) : dyn \in BOOLEAN}

=============================================================================
