----------------------------- MODULE MCDialogue -----------------------------
EXTENDS Dialogue

MCIds == {"replace", "append", "cancel", "a.md", "b.md"}

Says(marks, number, only, names, routed) ==
    [marks |-> marks, number |-> number, ordinal |-> 0, only |-> only,
     names |-> names, routed |-> routed]
Talk(marks) == Says(marks, 0, Nil, {}, "none")

MCTexts == {
    Talk({"no_execution"}),                                 \* apenas explique
    Says({"cancel"}, 0, "cancel", {"cancel"}, "none"),      \* cancelar
    Talk({"forget", "reset", "looks_new"}),                 \* esquece isso, quero ...
    Says({"new_action", "path"}, 0, Nil, {}, "action"),    \* apague c.md
    Talk({}),                                               \* talvez
    Says({}, 1, Nil, {}, "none"),                          \* 1
    Says({}, 3, Nil, {}, "none"),                          \* 3
    Says({"path"}, 0, "a.md", {"a.md"}, "none"),            \* a.md
    Says({"time"}, 0, Nil, {}, "none"),                    \* daqui 5 minutos
    Says({"looks_new"}, 0, Nil, {}, "edit"),   \* edite o arquivo a com o texto x
    Says({"looks_new"}, 0, Nil, {}, "reminder")            \* me lembre de ...
  }

Asks(field, options, free) ==
    [field |-> field, options |-> options, free |-> free, acts |-> TRUE]

Mode == Asks("write_mode", <<"replace", "append", "cancel">>, FALSE)
Where == Asks("path", <<"cancel">>, TRUE)
What == Asks("other", <<>>, TRUE)
Lost == [Where EXCEPT !.acts = FALSE]
Missing == Asks("missing", <<>>, FALSE)
Nothing == Asks("nothing", <<>>, FALSE)

MCChains == {<<Mode, What, Where>>, <<What, Nothing>>, <<Lost, Missing>>}
MCMatches == {<<"a.md", "b.md">>}
=============================================================================
