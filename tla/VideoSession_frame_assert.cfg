SPECIFICATION Spec
CONSTANT Streams <- BadStreams
INVARIANT OnMessageAssert
