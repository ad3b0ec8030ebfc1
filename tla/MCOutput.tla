------------------------------ MODULE MCOutput ------------------------------
(* Two kinds of text: the first line of an entry, and a JSON object whose  *)
(* keys collide with cbox-init's, which continues an entry where multiline *)
(* buffering is on.                                                        *)
EXTENDS Output

MCKinds == {"start", "json"}

MCObject ==
    [k \in {"json"} |->
        [key \in {Key("level"), Key("msg"), Key("time"), [name |-> "time", app |-> 1]} |->
            CASE key.name = "level" -> "warn"
              [] key.name = "msg"   -> "number"
              [] OTHER              -> "text"]]

MCReserved == {"time", "level", "msg", "process", "instance_id", "stream"}

Plain ==
    [redaction |-> <<>>, multiline |-> None, json |-> None, detection |-> None,
     filters |-> None, minLevel |-> "", snapshot |-> FALSE,
     bound |-> [kinds |-> {}, tokens |-> [stdout |-> 3, stderr |-> 1],
                clients |-> {"this"}]]

Traces ==
    [Plain EXCEPT !.multiline = [pattern |-> {"start"}, maxLines |-> 2],
                  !.redaction = <<[pattern |-> {"json"}, replacement |-> "masked"]>>,
                  !.filters = [exclude |-> {{"json"}}, include |-> {{"masked"}, {"start"}}],
                  !.bound = [kinds |-> MCKinds, tokens |-> [stdout |-> 3, stderr |-> 0],
                             clients |-> {}]]

Structured ==
    [Plain EXCEPT !.json = [detectAuto |-> TRUE, mergeFields |-> TRUE,
                            extractMessage |-> TRUE, messageField |-> "",
                            extractLevel |-> TRUE, levelField |-> ""],
                  !.detection = [patterns |-> [l \in {"error", "debug"} |->
                                     IF l = "error" THEN {"json", "start"} ELSE {"json"}],
                                 default |-> ""],
                  !.minLevel = "warn",
                  !.bound = [kinds |-> MCKinds, tokens |-> [stdout |-> 2, stderr |-> 0],
                             clients |-> {"", "other"}]]

(* The streams of a process the warm tier may checkpoint.                  *)
Kept ==
    [Plain EXCEPT !.snapshot = TRUE,
                  !.multiline = [pattern |-> {"start"}, maxLines |-> 2],
                  !.bound = [kinds |-> {"start"}, tokens |-> [stdout |-> 3, stderr |-> 0],
                             clients |-> {}]]

MCConfigs == {Plain, Traces, Structured, Kept}
MCOrder   == <<"stdout", "stderr">>
=============================================================================
