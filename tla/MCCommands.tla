----------------------------- MODULE MCCommands -----------------------------
(* Catalogs of up to two entries, sound ones and one with each fault.      *)
EXTENDS BookApi

Words == <<"words">>
Blank == <<"blank">>
Comment == <<"comment">>

Block(id, image, level, tags) ==
  <<Words, Words, <<"url", id>>, image, Words, Words, <<"level", level>>,
    <<"tags", tags>>, Words>>

Tags == <<"Fiction", "Gothic", "Horror">>
Good(id) == Block(id, <<"url", None>>, id * 9 - 8, Tags)

Sound == {
  Good(1),
  <<Comment, Blank>> \o Good(1) \o <<Blank, Comment, Blank>> \o Good(2) \o <<Blank>>,
  SubSeq(Good(2), 1, 4) \o <<Comment>> \o SubSeq(Good(2), 5, 9),
  Good(1) \o <<Comment, Blank>> \o Good(1),
  <<Comment>>}

Faulty == {
  Good(1) \o Good(2),
  Good(1) \o <<Blank>> \o Tail(Good(2)),
  SubSeq(Good(1), 1, 8) \o <<Blank>> \o Good(2),
  Good(1) \o <<Blank>> \o Block(None, <<"url", None>>, 3, Tags),
  Block(1, Words, 3, Tags),
  Block(1, <<"url", 2>>, 0, Tags),
  Block(1, <<"url", 2>>, 11, Tags),
  Block(1, <<"url", 2>>, 3, Tail(Tags)),
  Block(1, <<"url", 2>>, 3, Tags \o Tags),
  Block(1, <<"url", 2>>, 3, <<"Gothic", "Fiction", "Horror">>),
  Block(1, <<"url", 2>>, 3, Append(Tags, ""))}

MCFiles == Sound \cup Faulty
=============================================================================
