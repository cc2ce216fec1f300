SPECIFICATION Spec
SYMMETRY Alike
CONSTANTS
    Inputs = {a, b}
    Files = {f, g}
    Slots = {1}
    MovieTruncate = TRUE
    WrongMovieStateProtection = TRUE
    Polls = {{1}}
    MaxSamples = 2
    MaxMovies = 2
INVARIANTS InStep PlaysFile FileReplays
