---------------------------- MODULE MCAnswerEngine ----------------------------
EXTENDS AnswerEngine

CONSTANTS a, b, y1, y2

MCTitled == <<{a}, {b}, {}>>
MCNamed  == <<{a}, {b}, {a}>>
MCEpoch  == <<None, y1, y2>>

Ask3(entities, epochs, history) ==
    [entities |-> entities, epochs |-> epochs, history |-> history]

MCQuestions ==
    {Ask3({a, b}, {}, None), Ask3({a}, {}, None), Ask3({}, {}, {a, b}),
     Ask3({b}, {}, {a}), Ask3({b}, {y2}, {})}
=============================================================================
