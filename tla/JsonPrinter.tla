---------------------------- MODULE JsonPrinter ----------------------------
(***************************************************************************)
(* json::Print (json.cpp): the text of a node of JsonParser.  A double is  *)
(* the literal that operator<< gives it: 1.0 is printed as 1, and inf and  *)
(* nan as words.                                                           *)
(***************************************************************************)
EXTENDS Integers, Sequences, SequencesExt

indent_step == 4
PrintIndent(indent) == [n \in 1 .. indent |-> " "]

\* Mutant: the backslash is not escaped.
PrintStringRaw(value) ==
    LET Image(c) == CASE c = "\r" -> <<"\\", "r">>
                      [] c = "\n" -> <<"\\", "n">>
                      [] c = "\"" -> <<"\\", c>>
                      [] OTHER -> <<c>>
    IN  <<"\"">> \o FlattenSeq([i \in DOMAIN value |-> Image(value[i])]) \o <<"\"">>

\* Every character but these four is put as it is, a tab and "<" too.
PrintString(value) ==
    LET Image(c) == CASE c = "\r" -> <<"\\", "r">>
                      [] c = "\n" -> <<"\\", "n">>
                      [] c \in {"\"", "\\"} -> <<"\\", c>>
                      [] OTHER -> <<c>>
    IN  <<"\"">> \o FlattenSeq([i \in DOMAIN value |-> Image(value[i])]) \o <<"\"">>

\* The lines of a container between its brackets.
Lines(items, indent) ==
    LET line(i) == PrintIndent(indent + indent_step) \o items[i]
                   \o (IF i = Len(items) THEN <<>> ELSE <<",", "\n">>)
    IN  <<"\n">> \o FlattenSeq([i \in DOMAIN items |-> line(i)]) \o <<"\n">> \o PrintIndent(indent)

RECURSIVE PrintNode(_, _)

PrintArray(nodes, indent) ==
    <<"[">> \o Lines([i \in DOMAIN nodes |-> PrintNode(nodes[i], indent + indent_step)], indent) \o <<"]">>

\* The keys come in the order of std::map: any fixed order does here.
PrintDict(nodes, indent) ==
    LET keys == SetToSeq(DOMAIN nodes)
        item(i) == PrintString(keys[i]) \o <<":", " ">> \o PrintNode(nodes[keys[i]], indent + indent_step)
    IN  <<"{">> \o Lines([i \in DOMAIN keys |-> item(i)], indent) \o <<"}">>

PrintNode(node, indent) ==
    CASE "array" \in DOMAIN node -> PrintArray(node.array, indent)
      [] "dict" \in DOMAIN node -> PrintDict(node.dict, indent)
      [] "string" \in DOMAIN node -> PrintString(node.string)
      [] OTHER -> node[CHOOSE type \in DOMAIN node : TRUE]

PrintDocument(root) == PrintNode(root, 0)
=============================================================================
