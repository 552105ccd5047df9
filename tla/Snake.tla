-------------------------------- MODULE Snake --------------------------------
(***************************************************************************)
(* The game of Src/Application/Snake.c, as operators on its state: the     *)
(* matrix holds for each point of the snake the step that was made from    *)
(* it, so that following the steps from the end point leads to the start   *)
(* point, the head.  A random choice gives a set of states.                *)
(***************************************************************************)
EXTENDS Integers, FiniteSets

CONSTANTS SizeX, SizeY,     \* SNAKE_SIZE_X, SNAKE_SIZE_Y
          MaxScore          \* bound: the gift captured last is not replaced

ASSUME SnakeAssumption == SizeX \in 5 .. 256 /\ SizeY \in 2 .. 256

Points == (0 .. SizeX - 1) \X (0 .. SizeY - 1)
Steps == {"Up", "Down", "Right", "Left"}

\* The coordinates are uint8_t: beyond a border at 0 they wrap.
Moved(point, step) ==
    LET d == [Up |-> <<0, 1>>, Down |-> <<0, -1>>, Left |-> <<-1, 0>>, Right |-> <<1, 0>>][step]
    IN <<(point[1] + d[1]) % 256, (point[2] + d[2]) % 256>>

Opposite == [Up |-> "Down", Down |-> "Up", Left |-> "Right", Right |-> "Left"]

\* Before the first game the statics are zero.
NoGame ==
    [matrix |-> [p \in Points |-> "Unknown"], startPoint |-> <<0, 0>>, endPoint |-> <<0, 0>>,
     lastStep |-> "Unknown", score |-> 0, inProgress |-> FALSE]

\* Snake_PutNewGift: any free point.
WithGift(matrix) == {[matrix EXCEPT ![p] = "Gift"] : p \in {q \in Points : matrix[q] = "Unknown"}}

\* Snake_Init.
NewGames ==
    LET start == <<(SizeX \div 2) + 1, SizeY \div 2>>
        body == {<<start[1] - k, start[2]>> : k \in 0 .. 2}
        matrix == [p \in Points |-> IF p \in body THEN "Right" ELSE "Unknown"]
    IN {[matrix |-> m, startPoint |-> start, endPoint |-> <<start[1] - 2, start[2]>>,
         lastStep |-> "Right", score |-> 0, inProgress |-> TRUE] : m \in WithGift(matrix)}

\* Snake_AddNewCoord: the new head's point is marked only when it is left.
Advanced(game, step) ==
    [game EXCEPT !.matrix[game.startPoint] = step, !.startPoint = Moved(@, step)]

\* Variant: the end point moves by the step just made.
WithoutLast_LastStep(game) ==
    [game EXCEPT !.matrix[game.endPoint] = "Unknown", !.endPoint = Moved(@, game.lastStep)]

\* Snake_DeleteLastPoint.
WithoutLast(game) ==
    [game EXCEPT !.matrix[game.endPoint] = "Unknown",
                 !.endPoint = Moved(@, game.matrix[game.endPoint])]

\* The gift is replaced before the head moves: its point and the head's are free.
Captured(game, step) ==
    LET point == Moved(game.startPoint, step)
        without == [game.matrix EXCEPT ![point] = "Unknown"]
    IN {[Advanced([game EXCEPT !.matrix = m], step) EXCEPT !.score = @ + 1, !.lastStep = step] :
            m \in IF game.score + 1 < MaxScore THEN WithGift(without) ELSE {without}}

\* Snake_Step.  A collision moves the head, too, and ends the game.
Stepped(game, step) ==
    LET point == Moved(game.startPoint, step)
    IN IF ~game.inProgress \/ game.lastStep = Opposite[step] THEN {game}
       ELSE IF point \in Points /\ game.matrix[point] = "Gift" THEN Captured(game, step)
       ELSE IF point \in Points /\ game.matrix[point] = "Unknown"
       THEN {[WithoutLast(Advanced(game, step)) EXCEPT !.lastStep = step]}
       ELSE {[Advanced(game, step) EXCEPT !.inProgress = FALSE]}

Gifts(game) == {p \in Points : game.matrix[p] = "Gift"}

\* The steps followed from the end point.
FollowedTo(game, n) ==
    LET NextPoint(p) == IF p \in Points /\ game.matrix[p] \in Steps THEN Moved(p, game.matrix[p]) ELSE p
        point[k \in 0 .. n] == IF k = 0 THEN game.endPoint ELSE NextPoint(point[k - 1])
    IN point

\* The snake is one path without crossings from its end to its head, three
\* points long and one for each gift, and nothing else is marked as snake.
IsAPath(game) ==
    LET length == game.score + 2
        point == FollowedTo(game, length)
        body == {point[k] : k \in 0 .. length - 1}
    IN /\ point[length] = game.startPoint
       /\ Cardinality(body \cup {game.startPoint}) = length + 1
       /\ {p \in Points : game.matrix[p] \in Steps} \ {game.startPoint} = body
       /\ Cardinality(Gifts(game)) <= 1
=============================================================================
